---- MODULE Spec2Model ----
(***************************************************************************)
(* Model of the wallpaper archive mirror: the scraper (scrape_bing.py),    *)
(* the state reconciler (prepare_sync.py) and the files they share: the    *)
(* scrape state file, the date catalog and the wallpaper directory.        *)
(*                                                                         *)
(* Representation choices                                                  *)
(*   month key  "YYYYMM"            the integer YYYYMM                      *)
(*   item key   "YYYYMM/ImageID"    the pair <<YYYYMM, ImageID>>            *)
(*   filename   "YYYYMM_ImageID.jpg" the triple <<YYYYMM, ImageID, "jpg">>  *)
(*   a file     [exists, size]      what Path.exists() / stat().st_size see *)
(*   state file [exists, valid, done_months, done_images, failed_images];  *)
(*              valid: the text parses as a JSON object; the               *)
(*              JSON lists are written sorted from sets and read back into *)
(*              sets, so the three members are kept as sets                *)
(***************************************************************************)
EXTENDS Integers, Sequences, FiniteSets, TLC

VARIABLES
    this_month,     \* the calendar month, datetime.now().strftime("%Y%m")
    catalog,        \* image_dates.csv: [exists, rows]
    root,           \* wallpaper_dir/<filename>      : filename -> file
    high,           \* wallpaper_dir/high/<filename> : filename -> file
    stateFile,      \* scrape_state.json
    pc,             \* scrape_bing.main: "idle", "month" (loop head), "item"
    args,           \* scrape_bing.main: the parsed command line
    done_months,    \* scrape_bing.main: in-memory sets
    done_images,
    failed_images,
    months,         \* scrape_bing.main: months still to handle
    yyyymm,         \* scrape_bing.main: the month being handled
    image_ids,      \* scrape_bing.main: items of yyyymm still to handle
    n_fail,         \* scrape_bing.main: failed item attempts of this run
    ret,            \* exit code of the last finished scrape_bing run
    log,            \* history: index / item / save events of the current run
    reqs,           \* history: remote requests issued for the last item
    rec,            \* history of the last prepare_sync run
    lastOp,         \* history: the step that produced this state
    nOps,           \* history: number of program runs started so far
    hist,           \* history of the current and the previous scrape_bing run
    cb              \* build_date_catalog.main: its local variables and position

files == <<this_month, catalog, root, high, stateFile>>
scraper == <<pc, args, done_months, done_images, failed_images, months, yyyymm,
             image_ids, n_fail, ret, log, reqs>>
vars == <<this_month, catalog, root, high, stateFile, pc, args, done_months,
          done_images, failed_images, months, yyyymm, image_ids, n_fail, ret,
          log, reqs, rec, lastOp, nOps, hist, cb>>

----------------------------------------------------------------------------
(* Universe of the model *)

Months == {202412, 202501}
Ids == {"A", "B"}
MaxRecRuns == 2

MIN_FILE_SIZE == 50000

Key(ym, image_id) == <<ym, image_id>>
FileName(ym, image_id) == <<ym, image_id, "jpg">>
Keys == {Key(m, i) : m \in Months, i \in Ids}
Files == {FileName(m, i) : m \in Months, i \in Ids}

NoFile == [exists |-> FALSE, size |-> 0]
FileOf(n) == [exists |-> TRUE, size |-> n]

ToSet(s) == {s[k] : k \in DOMAIN s}

\* the sequences over S of length at most n
RECURSIVE SeqsUpTo(_, _)
SeqsUpTo(S, n) ==
    IF n = 0 THEN {<<>>}
    ELSE LET shorter == SeqsUpTo(S, n - 1)
         IN  shorter \cup {Append(q, x) : q \in shorter, x \in S}

----------------------------------------------------------------------------
(* generate_months: datetime arithmetic on (year, month) *)

RECURSIVE MonthsFrom(_, _, _, _)
\* variant: the loop stops before the end month (cur < stop)
MonthsFrom_EndExclusive(year, month, stopYear, stopMonth) ==
    IF year < stopYear \/ (year = stopYear /\ month < stopMonth)
    THEN <<year * 100 + month>> \o
         (IF month = 12
          THEN MonthsFrom(year + 1, 1, stopYear, stopMonth)
          ELSE MonthsFrom(year, month + 1, stopYear, stopMonth))
    ELSE <<>>

MonthsFrom(year, month, stopYear, stopMonth) ==
    IF year < stopYear \/ (year = stopYear /\ month <= stopMonth)
    THEN <<year * 100 + month>> \o
         (IF month = 12
          THEN MonthsFrom(year + 1, 1, stopYear, stopMonth)
          ELSE MonthsFrom(year, month + 1, stopYear, stopMonth))
    ELSE <<>>

generate_months(start, end) ==
    MonthsFrom(start \div 100, start % 100, end \div 100, end % 100)

----------------------------------------------------------------------------
(* The date catalog as build_date_catalog.py writes it *)

CatalogRow(ym, image_id, day) ==
    [date |-> ym * 100 + day, yyyymm |-> ym,
     image_id |-> image_id, filename |-> FileName(ym, image_id)]

NoCatalog == [exists |-> FALSE, rows |-> <<>>]
CatalogOf(rows) == [exists |-> TRUE, rows |-> rows]

\* no catalog build is running
NoBuilder == [pc |-> "idle"]

----------------------------------------------------------------------------
(* prepare_sync.py *)

\* variant: the window filter is forgotten
load_catalog_NoFilter(csv, scope) ==
    IF ~csv.exists THEN <<>> ELSE csv.rows

load_catalog(csv, scope) ==
    IF ~csv.exists THEN <<>>
    ELSE SelectSeq(csv.rows, LAMBDA row : row.yyyymm \in scope)

\* variant: the size test is forgotten
image_is_present_NoSize(filename) ==
    \E candidate \in {high[filename], root[filename]} : candidate.exists

image_is_present(filename) ==
    \E candidate \in {high[filename], root[filename]} :
        candidate.exists /\ candidate.size >= MIN_FILE_SIZE

RecPresent(catalog_rows) ==
    {<<catalog_rows[k].yyyymm, catalog_rows[k].image_id>> :
        k \in {j \in DOMAIN catalog_rows : image_is_present(catalog_rows[j].filename)}}

RecMissing(catalog_rows) ==
    {<<catalog_rows[k].yyyymm, catalog_rows[k].image_id>> :
        k \in {j \in DOMAIN catalog_rows : ~image_is_present(catalog_rows[j].filename)}}

LoadStateOrFresh(file) ==
    IF file.exists THEN file
    ELSE [exists |-> TRUE, valid |-> TRUE, done_months |-> {}, done_images |-> {}, failed_images |-> {}]

\* variant: done_images ^= present
RecDoneImages_Toggle(done, present, missing) ==
    LET p == {Key(q[1], q[2]) : q \in present}
    IN  ((done \ p) \cup (p \ done)) \ {Key(q[1], q[2]) : q \in missing}

\* lines 121-129: mark what is on disk, un-mark what is missing
RecDoneImages(done, present, missing) ==
    (done \cup {Key(p[1], p[2]) : p \in present}) \ {Key(p[1], p[2]) : p \in missing}

RecFailedImages(failed, present, missing) ==
    failed \ {Key(p[1], p[2]) : p \in missing}

\* variant: every month of the catalog is marked, complete or not
RecDoneMonths_AddAll(done, months_with_catalog, months_with_missing) ==
    (((done \ months_with_missing)
        \cup {m \in months_with_catalog : m # this_month})
        \ {this_month})

\* variant: months with missing images are not removed
RecDoneMonths_NoRemove(done, months_with_catalog, months_with_missing) ==
    ((done \cup {m \in months_with_catalog \ months_with_missing : m # this_month})
        \ {this_month})

\* variant: the final discard of the current month is forgotten
RecDoneMonths_NoDiscard(done, months_with_catalog, months_with_missing) ==
    ((done \ months_with_missing)
        \cup {m \in months_with_catalog \ months_with_missing : m # this_month})

\* lines 131-143
RecDoneMonths(done, months_with_catalog, months_with_missing) ==
    (((done \ months_with_missing)
        \cup {m \in months_with_catalog \ months_with_missing : m # this_month})
        \ {this_month})

RecReturn(missing) == IF missing # {} THEN 1 ELSE 0

PrepareSync(file, start, end) ==
    LET months_in_scope == ToSet(generate_months(start, end))
        catalog_rows == load_catalog(catalog, months_in_scope)
        months_with_catalog == {catalog_rows[k].yyyymm : k \in DOMAIN catalog_rows}
        present == RecPresent(catalog_rows)
        missing == RecMissing(catalog_rows)
        months_with_missing == {p[1] : p \in missing}
        state == LoadStateOrFresh(file)
    IN  [state |->
            [exists |-> TRUE, valid |-> TRUE,
             done_months |-> RecDoneMonths(state.done_months, months_with_catalog,
                                           months_with_missing),
             done_images |-> RecDoneImages(state.done_images, present, missing),
             failed_images |-> RecFailedImages(state.failed_images, present, missing)],
         ret |-> RecReturn(missing),
         present |-> present,
         missing |-> missing,
         months_with_catalog |-> months_with_catalog]

Windows == {<<202412, 202412>>, <<202412, 202501>>, <<202501, 202412>>}

NoRec == [ran |-> FALSE, start |-> 0, end |-> 0, ret |-> 0,
          prev_ran |-> FALSE, prev_start |-> 0, prev_end |-> 0,
          pre |-> LoadStateOrFresh([exists |-> FALSE]),
          present |-> {}, missing |-> {}, months_with_catalog |-> {}]

\* line 113: json.loads raises on a state file that is not a JSON document;
\* nothing has been written by then
ReconcileRaise(start, end) ==
    /\ stateFile.exists /\ ~stateFile.valid
    /\ lastOp' = "prepare_sync_raise"
    /\ nOps' = nOps + 1
    /\ UNCHANGED <<this_month, catalog, root, high, stateFile, rec, hist, cb>>
    /\ UNCHANGED scraper

Reconcile(start, end) ==
    /\ ~stateFile.exists \/ stateFile.valid
    /\ LET r == PrepareSync(stateFile, start, end)
       IN  /\ stateFile' = r.state
           /\ rec' = [ran |-> TRUE, start |-> start, end |-> end, ret |-> r.ret,
                      prev_ran |-> (lastOp = "prepare_sync"),
                      prev_start |-> IF lastOp = "prepare_sync" THEN rec.start ELSE 0,
                      prev_end |-> IF lastOp = "prepare_sync" THEN rec.end ELSE 0,
                      pre |-> LoadStateOrFresh(stateFile),
                      present |-> r.present, missing |-> r.missing,
                      months_with_catalog |-> r.months_with_catalog]
    /\ lastOp' = "prepare_sync"
    /\ nOps' = nOps + 1
    /\ UNCHANGED <<this_month, catalog, root, high, hist, cb>>
    /\ UNCHANGED scraper

----------------------------------------------------------------------------
(* scrape_bing.py *)

NoArgs == [start |-> 0, end |-> 0, direct_only |-> FALSE, cdn_first |-> FALSE,
           reset |-> FALSE, reverse |-> FALSE]

NoStateFile ==
    [exists |-> FALSE, valid |-> FALSE, done_months |-> {}, done_images |-> {},
     failed_images |-> {}]

\* the ways a run ends without returning: terminated between two steps,
\* terminated while a file or the state file is written
KillOps == {"scrape_kill", "scrape_kill_write", "scrape_kill_save"}

\* history of scraper runs: what preceded the run, the range and the complete
\* downloads of the run before it when that run was terminated, the keys this
\* run failed on and the files it wrote
NoHist == [after |-> "init", prev_range |-> <<0, 0>>, prev_downloaded |-> {},
           failed |-> {}, downloaded |-> {}]

ScraperIdle ==
    /\ pc = "idle"
    /\ args = NoArgs
    /\ done_months = {} /\ done_images = {} /\ failed_images = {}
    /\ months = <<>> /\ yyyymm = 0 /\ image_ids = <<>>
    /\ n_fail = 0 /\ ret = 0
    /\ log = <<>> /\ reqs = <<>>

(* Remote responses.  get_with_retry returns None on a 404 and when all
   MAX_RETRIES attempts raise; otherwise the response.  A body requested with
   stream=True is read after get_with_retry has returned: drop says that the
   connection breaks while iter_content reads it. *)
NoResponse ==
    [ok |-> FALSE, hrefs |-> <<>>, len |-> 0, jpeg |-> FALSE, drop |-> FALSE]
IndexPage(hrefs) ==
    [ok |-> TRUE, hrefs |-> hrefs, len |-> 0, jpeg |-> FALSE, drop |-> FALSE]
DetailPage(links) ==
    [ok |-> TRUE, hrefs |-> links, len |-> 0, jpeg |-> FALSE, drop |-> FALSE]
Body(len, jpeg) ==
    [ok |-> TRUE, hrefs |-> <<>>, len |-> len, jpeg |-> jpeg, drop |-> FALSE]
Dropped ==
    [ok |-> TRUE, hrefs |-> <<>>, len |-> 0, jpeg |-> FALSE, drop |-> TRUE]

CDN_MIN_BYTES == 50000
DOWNLOAD_MIN_BYTES == 50000
ON_DISK_MIN_BYTES == 50000

\* the ids of the /detail/us/ links of a page, first occurrences, in page order
RECURSIVE ParseIds(_, _)
\* variant: every non-empty id is kept, seen is not consulted
ParseIds_NoDedupe(hrefs, seen) == SelectSeq(hrefs, LAMBDA img_id : img_id # "")

ParseIds(hrefs, seen) ==
    IF hrefs = <<>> THEN <<>>
    ELSE LET img_id == Head(hrefs)
         IN  IF img_id # "" /\ img_id \notin seen
             THEN <<img_id>> \o ParseIds(Tail(hrefs), seen \cup {img_id})
             ELSE ParseIds(Tail(hrefs), seen)

get_image_ids(resp) == IF ~resp.ok THEN <<>> ELSE ParseIds(resp.hrefs, {})

\* raised: iter_content (line 119) raises, nothing in the function catches it
try_direct_cdn(resp, dest) ==
    IF ~resp.ok THEN [ok |-> FALSE, dest |-> dest, raised |-> FALSE]
    ELSE IF resp.drop THEN [ok |-> FALSE, dest |-> dest, raised |-> TRUE]
    ELSE IF resp.len < CDN_MIN_BYTES \/ ~resp.jpeg
         THEN [ok |-> FALSE, dest |-> dest, raised |-> FALSE]
    ELSE [ok |-> TRUE, dest |-> FileOf(resp.len), raised |-> FALSE]

NoUrl == ""
\* variant: the last link of the width is taken
FirstTagged_Last(links, width) ==
    LET hits == SelectSeq(links, LAMBDA a : a.tag = width)
    IN  IF hits = <<>> THEN NoUrl ELSE hits[Len(hits)].href

FirstTagged(links, width) ==
    LET hits == SelectSeq(links, LAMBDA a : a.tag = width)
    IN  IF hits = <<>> THEN NoUrl ELSE hits[1].href

get_4k_url_from_detail(resp) ==
    IF ~resp.ok THEN NoUrl
    ELSE IF FirstTagged(resp.hrefs, 3840) # NoUrl THEN FirstTagged(resp.hrefs, 3840)
    ELSE IF FirstTagged(resp.hrefs, 2560) # NoUrl THEN FirstTagged(resp.hrefs, 2560)
    ELSE FirstTagged(resp.hrefs, 1920)

\* raised: iter_content (line 145) raises, nothing in the function catches it
download_url(resp, dest) ==
    IF ~resp.ok THEN [ok |-> FALSE, dest |-> dest, raised |-> FALSE]
    ELSE IF resp.drop THEN [ok |-> FALSE, dest |-> dest, raised |-> TRUE]
    ELSE IF resp.len < DOWNLOAD_MIN_BYTES
         THEN [ok |-> FALSE, dest |-> dest, raised |-> FALSE]
    ELSE [ok |-> TRUE, dest |-> FileOf(resp.len), raised |-> FALSE]

load_state ==
    IF stateFile.exists THEN stateFile
    ELSE [exists |-> TRUE, valid |-> TRUE, done_months |-> {}, done_images |-> {}, failed_images |-> {}]

\* variant: the file is read again and a failed key is kept only if the
\* file still holds it or this run failed on it
save_state_Reread(dm, di, fi) ==
    stateFile' = [exists |-> TRUE, valid |-> TRUE, done_months |-> dm, done_images |-> di,
                  failed_images |-> fi \cap (stateFile.failed_images \cup hist.failed)]

save_state(dm, di, fi) ==
    stateFile' = [exists |-> TRUE, valid |-> TRUE, done_months |-> dm, done_images |-> di,
                  failed_images |-> fi]

Reverse(s) == [k \in 1..Len(s) |-> s[Len(s) + 1 - k]]

\* line 212 / 159: json.loads raises on a state file that is not a JSON
\* document; the exception leaves main and the process exits with status 1
ScraperLoadRaise(a) ==
    /\ pc = "idle"
    /\ ~a.reset /\ stateFile.exists /\ ~stateFile.valid
    /\ ret' = 1
    /\ lastOp' = "scrape_load_raise"
    /\ nOps' = nOps + 1
    /\ UNCHANGED <<pc, args, done_months, done_images, failed_images, months, yyyymm,
                   image_ids, n_fail, log, reqs, rec, hist, cb>>
    /\ UNCHANGED files

\* lines 209-224
ScraperStart(a) ==
    /\ pc = "idle"
    /\ a.reset \/ ~stateFile.exists \/ stateFile.valid
    /\ args' = a
    /\ LET state == IF a.reset
                    THEN [done_months |-> {}, done_images |-> {}, failed_images |-> {}]
                    ELSE load_state
       IN  /\ done_months' = state.done_months
           /\ done_images' = state.done_images
           /\ failed_images' = state.failed_images
    /\ months' = IF a.reverse THEN Reverse(generate_months(a.start, a.end))
                 ELSE generate_months(a.start, a.end)
    /\ yyyymm' = 0 /\ image_ids' = <<>>
    /\ n_fail' = 0
    /\ pc' = "month"
    /\ log' = <<>> /\ reqs' = <<>>
    /\ lastOp' = "scrape_start"
    /\ nOps' = nOps + 1
    /\ hist' = [after |-> lastOp, prev_range |-> <<args.start, args.end>>,
                prev_downloaded |-> IF lastOp \in KillOps THEN hist.downloaded ELSE {},
                failed |-> {}, downloaded |-> {}]
    /\ UNCHANGED <<ret, rec, cb>>
    /\ UNCHANGED files

\* lines 229-231
ScraperSkipMonth ==
    /\ pc = "month" /\ months # <<>>
    /\ Head(months) \in done_months
    /\ months' = Tail(months)
    /\ lastOp' = "scrape_skip_month"
    /\ UNCHANGED <<pc, args, done_months, done_images, failed_images, yyyymm,
                   image_ids, n_fail, ret, log, reqs, rec, nOps, hist, cb>>
    /\ UNCHANGED files

\* variant: a month that is over is not marked on an empty listing
ScraperIndexEmpty_PastNotMarked(resp) ==
    /\ pc = "month" /\ months # <<>>
    /\ Head(months) \notin done_months
    /\ get_image_ids(resp) = <<>>
    /\ yyyymm' = Head(months)
    /\ months' = Tail(months)
    /\ image_ids' = <<>>
    /\ done_months' = IF Head(months) < this_month THEN done_months
                      ELSE done_months \cup {Head(months)}
    /\ save_state(done_months', done_images, failed_images)
    /\ log' = log \o << <<"index", Head(months)>>, <<"save", Head(months)>> >>
    /\ lastOp' = "scrape_index_empty"
    /\ UNCHANGED <<hist, cb>>
    /\ UNCHANGED <<pc, args, done_images, failed_images, n_fail, ret, reqs, rec, nOps>>
    /\ UNCHANGED <<this_month, catalog, root, high>>

\* lines 233-242: the listing is empty
ScraperIndexEmpty(resp) ==
    /\ pc = "month" /\ months # <<>>
    /\ Head(months) \notin done_months
    /\ get_image_ids(resp) = <<>>
    /\ yyyymm' = Head(months)
    /\ months' = Tail(months)
    /\ image_ids' = <<>>
    /\ done_months' = done_months \cup {Head(months)}
    /\ save_state(done_months', done_images, failed_images)
    /\ log' = log \o << <<"index", Head(months)>>, <<"save", Head(months)>> >>
    /\ lastOp' = "scrape_index_empty"
    /\ UNCHANGED <<hist, cb>>
    /\ UNCHANGED <<pc, args, done_images, failed_images, n_fail, ret, reqs, rec, nOps>>
    /\ UNCHANGED <<this_month, catalog, root, high>>

\* lines 233-244: the listing has items
ScraperIndexItems(resp) ==
    /\ pc = "month" /\ months # <<>>
    /\ Head(months) \notin done_months
    /\ get_image_ids(resp) # <<>>
    /\ yyyymm' = Head(months)
    /\ months' = Tail(months)
    /\ image_ids' = get_image_ids(resp)
    /\ pc' = "item"
    /\ log' = Append(log, <<"index", Head(months)>>)
    /\ lastOp' = "scrape_index"
    /\ UNCHANGED <<args, done_months, done_images, failed_images, n_fail, ret, reqs,
                   rec, nOps, hist, cb>>
    /\ UNCHANGED files

\* line 252
OnDisk(dest) == dest.exists /\ dest.size > ON_DISK_MIN_BYTES

\* lines 251-256
ScraperSkipOnDisk ==
    /\ pc = "item" /\ image_ids # <<>>
    /\ OnDisk(root[FileName(yyyymm, Head(image_ids))])
    /\ done_images' = done_images \cup {Key(yyyymm, Head(image_ids))}
    /\ image_ids' = Tail(image_ids)
    /\ log' = Append(log, <<"item", yyyymm, Head(image_ids)>>)
    /\ reqs' = <<>>
    /\ lastOp' = "scrape_skip_disk"
    /\ UNCHANGED <<pc, args, done_months, failed_images, months, yyyymm, n_fail, ret,
                   rec, nOps, hist, cb>>
    /\ UNCHANGED files

\* variant: the state is written after every item instead of once per month
ScraperSkipState_Save ==
    /\ pc = "item" /\ image_ids # <<>>
    /\ ~OnDisk(root[FileName(yyyymm, Head(image_ids))])
    /\ Key(yyyymm, Head(image_ids)) \in done_images
    /\ image_ids' = Tail(image_ids)
    /\ save_state(done_months, done_images, failed_images)
    /\ log' = log \o << <<"item", yyyymm, Head(image_ids)>>, <<"save", yyyymm>> >>
    /\ reqs' = <<>>
    /\ lastOp' = "scrape_skip_state"
    /\ UNCHANGED <<hist, cb>>
    /\ UNCHANGED <<pc, args, done_months, done_images, failed_images, months, yyyymm,
                   n_fail, ret, rec, nOps>>
    /\ UNCHANGED <<this_month, catalog, root, high>>

\* lines 258-261
ScraperSkipState ==
    /\ pc = "item" /\ image_ids # <<>>
    /\ ~OnDisk(root[FileName(yyyymm, Head(image_ids))])
    /\ Key(yyyymm, Head(image_ids)) \in done_images
    /\ image_ids' = Tail(image_ids)
    /\ log' = Append(log, <<"item", yyyymm, Head(image_ids)>>)
    /\ reqs' = <<>>
    /\ lastOp' = "scrape_skip_state"
    /\ UNCHANGED <<pc, args, done_months, done_images, failed_images, months, yyyymm,
                   n_fail, ret, rec, nOps, hist, cb>>
    /\ UNCHANGED files

\* variant: the CDN-first path gives up after the CDN attempt
Attempt_NoFallback(a, dest, cdn, detail, dl) ==
    IF a.cdn_first \/ a.direct_only
    THEN LET r1 == try_direct_cdn(cdn, dest)
         IN  [ok |-> r1.ok, dest |-> r1.dest, raised |-> r1.raised, reqs |-> <<"cdn">>]
    ELSE LET dl_url == get_4k_url_from_detail(detail)
         IN  IF dl_url # NoUrl
             THEN LET r2 == download_url(dl, dest)
                  IN  [ok |-> r2.ok, dest |-> r2.dest, raised |-> r2.raised,
                       reqs |-> <<"detail", dl_url>>]
             ELSE LET r1 == try_direct_cdn(cdn, dest)
                  IN  [ok |-> r1.ok, dest |-> r1.dest, raised |-> r1.raised,
                       reqs |-> <<"detail", "cdn">>]

\* lines 263-282: the source chain; the requests issued (a download is named
\* by its URL), the outcome, the file, and whether an exception left the chain
Attempt(a, dest, cdn, detail, dl) ==
    IF a.cdn_first \/ a.direct_only
    THEN LET r1 == try_direct_cdn(cdn, dest)
         IN  IF ~r1.raised /\ ~r1.ok /\ ~a.direct_only
             THEN LET dl_url == get_4k_url_from_detail(detail)
                  IN  IF dl_url # NoUrl
                      THEN LET r2 == download_url(dl, r1.dest)
                           IN  [ok |-> r2.ok, dest |-> r2.dest, raised |-> r2.raised,
                                reqs |-> <<"cdn", "detail", dl_url>>]
                      ELSE [ok |-> r1.ok, dest |-> r1.dest, raised |-> FALSE,
                            reqs |-> <<"cdn", "detail">>]
             ELSE [ok |-> r1.ok, dest |-> r1.dest, raised |-> r1.raised,
                   reqs |-> <<"cdn">>]
    ELSE LET dl_url == get_4k_url_from_detail(detail)
         IN  IF dl_url # NoUrl
             THEN LET r2 == download_url(dl, dest)
                  IN  [ok |-> r2.ok, dest |-> r2.dest, raised |-> r2.raised,
                       reqs |-> <<"detail", dl_url>>]
             ELSE LET r1 == try_direct_cdn(cdn, dest)
                  IN  [ok |-> r1.ok, dest |-> r1.dest, raised |-> r1.raised,
                       reqs |-> <<"detail", "cdn">>]

\* variant: the key is marked done whatever the outcome
ItemDoneImages_Always(done, key, ok) == done \cup {key}

\* lines 284-294, after a successful attempt
ItemDoneImages(done, key, ok) == IF ok THEN done \cup {key} ELSE done

\* lines 284-294, after a failed attempt
ItemFailedImages(failed, key, ok) == IF ok THEN failed ELSE failed \cup {key}

\* lines 263-294
ScraperDownload(cdn, detail, dl) ==
    /\ pc = "item" /\ image_ids # <<>>
    /\ LET img_id == Head(image_ids)
           key == Key(yyyymm, img_id)
           dest == FileName(yyyymm, img_id)
           r == Attempt(args, root[dest], cdn, detail, dl)
       IN  /\ ~OnDisk(root[dest])
           /\ key \notin done_images
           /\ ~r.raised
           /\ done_images' = ItemDoneImages(done_images, key, r.ok)
           /\ failed_images' = ItemFailedImages(failed_images, key, r.ok)
           /\ n_fail' = IF r.ok THEN n_fail ELSE n_fail + 1
           /\ root' = [root EXCEPT ![dest] = IF r.ok THEN r.dest ELSE NoFile]
           /\ reqs' = r.reqs
           /\ log' = Append(log, <<"item", yyyymm, img_id>>)
           /\ hist' = [hist EXCEPT
                         !.failed = IF r.ok THEN @ ELSE @ \cup {key},
                         !.downloaded = IF r.ok THEN @ \cup {dest} ELSE @]
    /\ image_ids' = Tail(image_ids)
    /\ lastOp' = "scrape_download"
    /\ UNCHANGED <<pc, args, done_months, months, yyyymm, ret, rec, nOps, cb>>
    /\ UNCHANGED <<this_month, catalog, high, stateFile>>

\* variant: the checkpoint is written without marking the month
ScraperMonthDone_NoMark ==
    /\ pc = "item" /\ image_ids = <<>>
    /\ done_months' = done_months
    /\ save_state(done_months', done_images, failed_images)
    /\ pc' = "month"
    /\ log' = Append(log, <<"save", yyyymm>>)
    /\ lastOp' = "scrape_save"
    /\ UNCHANGED <<hist, cb>>
    /\ UNCHANGED <<args, done_images, failed_images, months, yyyymm, image_ids, n_fail,
                   ret, reqs, rec, nOps>>
    /\ UNCHANGED <<this_month, catalog, root, high>>

\* variant: a month with a failed item is left unmarked
ScraperMonthDone_UnlessFailed ==
    /\ pc = "item" /\ image_ids = <<>>
    /\ done_months' = IF \E key \in failed_images : key[1] = yyyymm THEN done_months
                      ELSE done_months \cup {yyyymm}
    /\ save_state(done_months', done_images, failed_images)
    /\ pc' = "month"
    /\ log' = Append(log, <<"save", yyyymm>>)
    /\ lastOp' = "scrape_save"
    /\ UNCHANGED <<hist, cb>>
    /\ UNCHANGED <<args, done_images, failed_images, months, yyyymm, image_ids, n_fail,
                   ret, reqs, rec, nOps>>
    /\ UNCHANGED <<this_month, catalog, root, high>>

\* lines 296-299
ScraperMonthDone ==
    /\ pc = "item" /\ image_ids = <<>>
    /\ done_months' = done_months \cup {yyyymm}
    /\ save_state(done_months', done_images, failed_images)
    /\ pc' = "month"
    /\ log' = Append(log, <<"save", yyyymm>>)
    /\ lastOp' = "scrape_save"
    /\ UNCHANGED <<hist, cb>>
    /\ UNCHANGED <<args, done_images, failed_images, months, yyyymm, image_ids, n_fail,
                   ret, reqs, rec, nOps>>
    /\ UNCHANGED <<this_month, catalog, root, high>>

\* variant: the exit code follows failed_images instead of the count of this run
ScraperFinish_FailedSet ==
    /\ pc = "month" /\ months = <<>>
    /\ ret' = IF failed_images = {} THEN 0 ELSE 1
    /\ pc' = "idle"
    /\ lastOp' = "scrape_finish"
    /\ UNCHANGED <<args, done_months, done_images, failed_images, months, yyyymm,
                   image_ids, n_fail, log, reqs, rec, nOps, hist, cb>>
    /\ UNCHANGED files

\* lines 301-305
ScraperFinish ==
    /\ pc = "month" /\ months = <<>>
    /\ ret' = IF n_fail = 0 THEN 0 ELSE 1
    /\ pc' = "idle"
    /\ lastOp' = "scrape_finish"
    /\ UNCHANGED <<args, done_months, done_images, failed_images, months, yyyymm,
                   image_ids, n_fail, log, reqs, rec, nOps, hist, cb>>
    /\ UNCHANGED files

----------------------------------------------------------------------------
(* Ways a scraper run ends without reaching line 305 *)

\* the variables of a process that no longer runs
ProcessGone ==
    /\ pc' = "idle"
    /\ done_months' = {} /\ done_images' = {} /\ failed_images' = {}
    /\ months' = <<>> /\ yyyymm' = 0 /\ image_ids' = <<>>
    /\ n_fail' = 0

\* lines 119 / 145: the exception raised by iter_content is caught neither in
\* try_direct_cdn / download_url nor in main (the try of get_with_retry, lines
\* 77-87, has ended); the process exits with status 1, nothing is recorded
ScraperRaise(cdn, detail, dl) ==
    /\ pc = "item" /\ image_ids # <<>>
    /\ LET img_id == Head(image_ids)
           dest == FileName(yyyymm, img_id)
           r == Attempt(args, root[dest], cdn, detail, dl)
       IN  /\ ~OnDisk(root[dest])
           /\ Key(yyyymm, img_id) \notin done_images
           /\ r.raised
           /\ reqs' = r.reqs
           /\ log' = Append(log, <<"item", yyyymm, img_id>>)
    /\ ProcessGone
    /\ ret' = 1
    /\ lastOp' = "scrape_raise"
    /\ UNCHANGED <<args, rec, nOps, hist, cb>>
    /\ UNCHANGED files

\* the process is terminated between two steps of main
ScraperKill ==
    /\ pc \in {"month", "item"}
    /\ ProcessGone
    /\ lastOp' = "scrape_kill"
    /\ UNCHANGED <<args, ret, log, reqs, rec, nOps, hist, cb>>
    /\ UNCHANGED files

\* lines 123 / 149: the process is terminated inside dest.write_bytes(content),
\* which opens dest for writing (truncating it) and then writes: n bytes of the
\* accepted payload are in dest
ScraperKillWrite(cdn, detail, dl, n) ==
    /\ pc = "item" /\ image_ids # <<>>
    /\ LET img_id == Head(image_ids)
           dest == FileName(yyyymm, img_id)
           r == Attempt(args, root[dest], cdn, detail, dl)
       IN  /\ ~OnDisk(root[dest])
           /\ Key(yyyymm, img_id) \notin done_images
           /\ ~r.raised /\ r.ok
           /\ n < r.dest.size
           /\ root' = [root EXCEPT ![dest] = FileOf(n)]
           /\ reqs' = r.reqs
           /\ log' = Append(log, <<"item", yyyymm, img_id>>)
    /\ ProcessGone
    /\ lastOp' = "scrape_kill_write"
    /\ UNCHANGED <<args, ret, rec, nOps, hist, cb>>
    /\ UNCHANGED <<this_month, catalog, high, stateFile>>

\* what STATE_FILE.write_text leaves when it does not finish: the file was
\* opened for writing (truncated) and holds a proper prefix of the document
TornStateFile ==
    [exists |-> TRUE, valid |-> FALSE, done_months |-> {}, done_images |-> {},
     failed_images |-> {}]

\* lines 163-164 called from 297-299: the process is terminated inside
\* write_text at the checkpoint of a month
ScraperKillSave ==
    /\ pc = "item" /\ image_ids = <<>>
    /\ stateFile' = TornStateFile
    /\ ProcessGone
    /\ lastOp' = "scrape_kill_save"
    /\ UNCHANGED <<args, ret, log, reqs, rec, nOps, hist, cb>>
    /\ UNCHANGED <<this_month, catalog, root, high>>

----------------------------------------------------------------------------
(* sort_by_resolution.py: every .jpg directly in the directory is moved to
   its tier; toHigh are those at least 3840 px wide, the others leave both
   locations that prepare_sync looks at. *)

Sort(toHigh) ==
    /\ pc = "idle"
    /\ \E f \in Files : root[f].exists
    /\ toHigh \subseteq {f \in Files : root[f].exists}
    /\ high' = [f \in Files |-> IF f \in toHigh THEN root[f] ELSE high[f]]
    /\ root' = [f \in Files |-> NoFile]
    /\ lastOp' = "sort"
    /\ nOps' = nOps + 1
    /\ UNCHANGED <<this_month, catalog, stateFile, rec, hist, cb>>
    /\ UNCHANGED scraper

----------------------------------------------------------------------------
(* What the remote host may answer *)

IndexResponses(m) ==
    IF m = 202412 THEN {NoResponse, IndexPage(<<"A", "B", "A">>)}
    ELSE {IndexPage(<<>>), IndexPage(<<"", "A">>)}

MinusOne == MIN_FILE_SIZE - 1
PlusOne == MIN_FILE_SIZE + 1
DetailResponses ==
    {NoResponse,
     DetailPage(<< [tag |-> 1920, href |-> "u1920"], [tag |-> 3840, href |-> "u3840"] >>)}
DownloadResponses == {NoResponse, Body(MinusOne, TRUE), Body(PlusOne, TRUE)}
\* every kind of answer of the CDN, with a payload of exactly the minimum size
CdnResponsesAll ==
    {NoResponse, Body(MinusOne, TRUE), Body(MIN_FILE_SIZE, TRUE), Body(PlusOne, FALSE)}
\* the same kinds, the accepted payload one byte above the minimum
CdnResponses ==
    {NoResponse, Body(MinusOne, TRUE), Body(PlusOne, TRUE), Body(PlusOne, FALSE)}

\* one step of a running scraper, the CDN answering from cdnSet
ScraperStep(cdnSet) ==
    \/ ScraperSkipMonth
    \/ months # <<>> /\ \E resp \in IndexResponses(Head(months)) : ScraperIndexEmpty(resp)
    \/ months # <<>> /\ \E resp \in IndexResponses(Head(months)) : ScraperIndexItems(resp)
    \/ ScraperSkipOnDisk
    \/ ScraperSkipState
    \/ \E cdn \in cdnSet, detail \in DetailResponses, dl \in DownloadResponses :
          ScraperDownload(cdn, detail, dl)
    \/ ScraperMonthDone
    \/ ScraperFinish

FullCatalog ==
    CatalogOf(<<CatalogRow(202412, "B", 1), CatalogRow(202412, "A", 2),
                CatalogRow(202501, "A", 1)>>)

----------------------------------------------------------------------------
(* Spec: the programs run one after another, starting with no state file
   and an empty wallpaper directory; 202501 is the current month *)

MaxOps == 4

\* --cdn-first --direct-only behaves as --direct-only and is left out
ScrapeArgs ==
    {[start |-> 202412, end |-> 202501, direct_only |-> d, cdn_first |-> c,
      reset |-> r, reverse |-> FALSE] : d, c, r \in BOOLEAN}
    \ {[start |-> 202412, end |-> 202501, direct_only |-> TRUE, cdn_first |-> TRUE,
        reset |-> r, reverse |-> FALSE] : r \in BOOLEAN}

Init ==
    /\ this_month = 202501
    /\ catalog = FullCatalog
    /\ root = [f \in Files |-> NoFile]
    /\ high = [f \in Files |-> NoFile]
    /\ stateFile = NoStateFile
    /\ ScraperIdle
    /\ rec = NoRec
    /\ hist = NoHist
    /\ cb = NoBuilder
    /\ lastOp = "init"
    /\ nOps = 0

Next ==
    \/ nOps < MaxOps /\ \E a \in ScrapeArgs : ScraperStart(a)
    \/ ScraperStep(CdnResponses)
    \/ /\ nOps < MaxOps /\ pc = "idle"
       /\ \E w \in {<<202412, 202412>>, <<202412, 202501>>} : Reconcile(w[1], w[2])
    \/ nOps < MaxOps /\ Sort({f \in Files : root[f].exists})

Spec == Init /\ [][Next]_vars

----------------------------------------------------------------------------
(* SpecRun: one scraper run, with any command line, over a directory and a
   state file left by earlier runs *)

RunArgs ==
    {[start |-> w[1], end |-> w[2], direct_only |-> d, cdn_first |-> c,
      reset |-> r, reverse |-> v] :
        w \in {<<202412, 202501>>, <<202501, 202412>>}, d, c, r, v \in BOOLEAN}

\* (root, high) of 202412_A.jpg
RunDiskOptions ==
    { <<NoFile, NoFile>>,
      <<FileOf(MinusOne), NoFile>>,
      <<FileOf(MIN_FILE_SIZE), NoFile>>,
      <<FileOf(PlusOne), NoFile>>,
      <<NoFile, FileOf(PlusOne)>> }

InitRun ==
    /\ this_month = 202501
    /\ catalog = FullCatalog
    /\ \E d \in RunDiskOptions :
          /\ root = [f \in Files |-> IF f = FileName(202412, "A") THEN d[1] ELSE NoFile]
          /\ high = [f \in Files |-> IF f = FileName(202412, "A") THEN d[2] ELSE NoFile]
    /\ \E dm \in {{}, {202412}}, di \in {{}, {Key(202412, "A")}},
          fi \in {{}, {Key(202412, "A")}} :
          stateFile = [exists |-> TRUE, valid |-> TRUE, done_months |-> dm, done_images |-> di,
                       failed_images |-> fi]
    /\ ScraperIdle
    /\ rec = NoRec
    /\ hist = NoHist
    /\ cb = NoBuilder
    /\ lastOp = "init"
    /\ nOps = 0

NextRun ==
    \/ lastOp = "init" /\ \E a \in RunArgs : ScraperStart(a)
    \/ ScraperStep(CdnResponsesAll)

SpecRun == InitRun /\ [][NextRun]_vars

----------------------------------------------------------------------------
(* SpecOverlap: one scraper run during which prepare_sync is run; nothing
   keeps the two programs from running at the same time (no lock file, no
   check for a running instance) *)

MaxOverlapOps == 2

OverlapArgs ==
    {[start |-> 202412, end |-> 202501, direct_only |-> d, cdn_first |-> FALSE,
      reset |-> r, reverse |-> FALSE] : d, r \in BOOLEAN}

NextOverlap ==
    \/ lastOp = "init" /\ \E a \in OverlapArgs : ScraperStart(a)
    \/ ScraperStep(CdnResponses)
    \/ /\ pc # "idle" /\ nOps < MaxOverlapOps
       /\ \E w \in {<<202412, 202412>>, <<202412, 202501>>} : Reconcile(w[1], w[2])

SpecOverlap == InitRun /\ [][NextOverlap]_vars

----------------------------------------------------------------------------
(* SpecDetail: one scraper run over 202412..202501 against a host whose
   detail pages carry a short sequence of resolution-tagged links; cb.detail
   is what the host answers to a detail request during the run *)

MaxDetailLinks == 3

\* the widths a link of a detail page may name; 1280 is not looked for
DetailTags == {3840, 2560, 1920, 1280}
\* the k-th link of a page, its href naming the width
DetailLink(width, k) ==
    [tag |-> width, href |-> "w:" \o ToString(width) \o "#" \o ToString(k)]
DetailPages ==
    {NoResponse} \cup
    {DetailPage([k \in 1..Len(q) |-> DetailLink(q[k], k)]) :
        q \in SeqsUpTo(DetailTags, MaxDetailLinks)}

DetailArgs ==
    {[start |-> 202412, end |-> 202501, direct_only |-> FALSE, cdn_first |-> c,
      reset |-> FALSE, reverse |-> FALSE] : c \in BOOLEAN}

InitDetail ==
    /\ this_month = 202501
    /\ catalog = FullCatalog
    /\ root \in {[f \in Files |-> NoFile],
                 [f \in Files |-> IF f = FileName(202412, "A") THEN FileOf(PlusOne)
                                  ELSE NoFile]}
    /\ high = [f \in Files |-> NoFile]
    /\ \E dm \in {{}, {202412}}, di \in {{}, {Key(202412, "B")}} :
          stateFile = [exists |-> TRUE, valid |-> TRUE, done_months |-> dm,
                       done_images |-> di, failed_images |-> {}]
    /\ ScraperIdle
    /\ rec = NoRec
    /\ hist = NoHist
    /\ \E page \in DetailPages : cb = [pc |-> "remote", detail |-> page]
    /\ lastOp = "init"
    /\ nOps = 0

NextDetail ==
    \/ lastOp = "init" /\ \E a \in DetailArgs : ScraperStart(a)
    \/ ScraperSkipMonth
    \/ months # <<>> /\ \E resp \in IndexResponses(Head(months)) : ScraperIndexEmpty(resp)
    \/ months # <<>> /\ \E resp \in IndexResponses(Head(months)) : ScraperIndexItems(resp)
    \/ ScraperSkipOnDisk
    \/ ScraperSkipState
    \/ \E cdn \in CdnResponses, dl \in DownloadResponses :
          ScraperDownload(cdn, cb.detail, dl)
    \/ ScraperMonthDone
    \/ ScraperFinish

SpecDetail == InitDetail /\ [][NextDetail]_vars

----------------------------------------------------------------------------
(* SpecFault: scraper and reconciler runs, over the range 202412..202501 and
   without --reset, in which the connection may break while a body is read
   and the scraper may be terminated at any point *)

MaxFaultRuns == 3

Twice == MIN_FILE_SIZE + MIN_FILE_SIZE
TornSizes == {0, PlusOne}

FaultArgs ==
    {[start |-> 202412, end |-> 202501, direct_only |-> d, cdn_first |-> c,
      reset |-> FALSE, reverse |-> FALSE] :
        d \in BOOLEAN, c \in {FALSE}}

FaultCdnResponses == {NoResponse, Body(MIN_FILE_SIZE, TRUE), Body(Twice, TRUE), Dropped}
FaultDownloadResponses == {NoResponse, Body(Twice, TRUE), Dropped}

InitFault ==
    /\ this_month = 202501
    /\ catalog = FullCatalog
    /\ root = [f \in Files |-> NoFile]
    /\ high = [f \in Files |-> NoFile]
    /\ stateFile = NoStateFile
    /\ ScraperIdle
    /\ rec = NoRec
    /\ hist = NoHist
    /\ cb = NoBuilder
    /\ lastOp = "init"
    /\ nOps = 0

NextFault ==
    \/ nOps < MaxFaultRuns /\ \E a \in FaultArgs : ScraperStart(a)
    \/ nOps < MaxFaultRuns /\ \E a \in FaultArgs : ScraperLoadRaise(a)
    \/ ScraperSkipMonth
    \/ months # <<>> /\ \E resp \in IndexResponses(Head(months)) : ScraperIndexEmpty(resp)
    \/ months # <<>> /\ \E resp \in IndexResponses(Head(months)) : ScraperIndexItems(resp)
    \/ ScraperSkipOnDisk
    \/ ScraperSkipState
    \/ \E cdn \in FaultCdnResponses, detail \in DetailResponses,
          dl \in FaultDownloadResponses : ScraperDownload(cdn, detail, dl)
    \/ ScraperMonthDone
    \/ ScraperFinish
    \/ \E cdn \in FaultCdnResponses, detail \in DetailResponses,
          dl \in FaultDownloadResponses : ScraperRaise(cdn, detail, dl)
    \/ ScraperKill
    \/ \E cdn \in FaultCdnResponses, detail \in DetailResponses,
          dl \in FaultDownloadResponses, n \in TornSizes :
          ScraperKillWrite(cdn, detail, dl, n)
    \/ ScraperKillSave
    \/ nOps < MaxFaultRuns /\ pc = "idle" /\ Reconcile(202412, 202501)
    \/ nOps < MaxFaultRuns /\ pc = "idle" /\ ReconcileRaise(202412, 202501)

SpecFault == InitFault /\ [][NextFault]_vars

----------------------------------------------------------------------------
(* SpecRec: prepare_sync run on any state file, catalog and directory *)

RecCatalogs ==
    { NoCatalog,
      CatalogOf(<<CatalogRow(202412, "B", 1), CatalogRow(202412, "A", 2),
                  CatalogRow(202501, "A", 1)>>),
      CatalogOf(<<CatalogRow(202501, "A", 1)>>) }

\* (root, high) of one filename
RecDiskFull ==
    { <<NoFile, NoFile>>,
      <<FileOf(MIN_FILE_SIZE - 1), FileOf(MIN_FILE_SIZE - 1)>>,
      <<FileOf(MIN_FILE_SIZE), NoFile>>,
      <<FileOf(MIN_FILE_SIZE - 1), FileOf(MIN_FILE_SIZE)>> }
RecDiskSmall == { <<NoFile, NoFile>>, <<FileOf(MIN_FILE_SIZE), NoFile>> }

RecDiskOptions(f) ==
    IF f = FileName(202412, "A") THEN RecDiskFull
    ELSE IF f = FileName(202501, "B") THEN { <<NoFile, NoFile>> }
    ELSE RecDiskSmall

RecKeys == Keys \ {Key(202501, "B")}

InitRec ==
    /\ this_month \in Months
    /\ catalog \in RecCatalogs
    /\ \E d \in [Files -> RecDiskFull] :
          /\ \A f \in Files : d[f] \in RecDiskOptions(f)
          /\ root = [f \in Files |-> d[f][1]]
          /\ high = [f \in Files |-> d[f][2]]
    /\ \E dm \in SUBSET Months, di \in SUBSET RecKeys,
          fi \in SUBSET (RecKeys \ {Key(202412, "B")}) :
          stateFile = [exists |-> TRUE, valid |-> TRUE, done_months |-> dm,
                       done_images |-> di, failed_images |-> fi]
    /\ ScraperIdle
    /\ rec = NoRec
    /\ hist = NoHist
    /\ cb = NoBuilder
    /\ lastOp = "init"
    /\ nOps = 0

NextRec == nOps < MaxRecRuns /\ \E w \in Windows : Reconcile(w[1], w[2])

SpecRec == InitRec /\ [][NextRec]_vars

----------------------------------------------------------------------------
(* build_date_catalog.py *)

MAX_RETRIES == 3

\* variant: the wait is not skipped after the last attempt
RetrySleep_Always(attempt) == <<2 ^ attempt>>

\* lines 74-76: the wait after failed attempt number attempt (0-based)
RetrySleep(attempt) == IF attempt < MAX_RETRIES - 1 THEN <<2 ^ attempt>> ELSE <<>>

\* datetime.date(year, month, day) accepts the day
IsLeap(year) == year % 4 = 0 /\ (year % 100 # 0 \/ year % 400 = 0)
DaysInMonth(year, month) ==
    IF month = 2 THEN (IF IsLeap(year) THEN 29 ELSE 28)
    ELSE IF month \in {4, 6, 9, 11} THEN 30
    ELSE 31
\* variant: any day up to 31 is accepted in every month
ValidDate_AnyDay(year, month, day) ==
    /\ year \in 1..9999 /\ month \in 1..12
    /\ day \in 1..31

ValidDate(year, month, day) ==
    /\ year \in 1..9999 /\ month \in 1..12
    /\ day \in 1..DaysInMonth(year, month)

\* lines 110-118: the loop from position p on; date() raises ValueError on the
\* first day that is not a day of the month, and no list is returned
RECURSIVE AssignFrom(_, _, _, _)
\* variant: position p gets day p
AssignFrom_Forward(ym, ids, p, rows) ==
    IF \E q \in 1..Len(ids) : ~ValidDate(ym \div 100, ym % 100, q)
    THEN [raised |-> TRUE, rows |-> <<>>]
    ELSE [raised |-> FALSE, rows |-> [q \in 1..Len(ids) |-> CatalogRow(ym, ids[q], q)]]

AssignFrom(ym, ids, p, rows) ==
    IF p > Len(ids) THEN [raised |-> FALSE, rows |-> rows]
    ELSE LET day == Len(ids) - p + 1
         IN  IF ~ValidDate(ym \div 100, ym % 100, day)
             THEN [raised |-> TRUE, rows |-> <<>>]
             ELSE AssignFrom(ym, ids, p + 1, Append(rows, CatalogRow(ym, ids[p], day)))

assign_dates(ym, ids) == AssignFrom(ym, ids, 1, <<>>)

(* A Python dict keyed by (yyyymm, image_id), as the sequence of its values in
   insertion order: assigning to a key that is there replaces the value in
   place, assigning to a new key appends. *)
\* variant: the mapping is keyed by the id alone
DictKey_IdOnly(row) == row.image_id

DictKey(row) == <<row.yyyymm, row.image_id>>
DictPut(d, row) ==
    IF \E i \in 1..Len(d) : DictKey(d[i]) = DictKey(row)
    THEN [i \in 1..Len(d) |-> IF DictKey(d[i]) = DictKey(row) THEN row ELSE d[i]]
    ELSE Append(d, row)
RECURSIVE DictPutAll(_, _)
DictPutAll(d, rows) ==
    IF rows = <<>> THEN d ELSE DictPutAll(DictPut(d, Head(rows)), Tail(rows))

\* lines 122-131
load_existing(csv) == IF ~csv.exists THEN <<>> ELSE DictPutAll(<<>>, csv.rows)

\* sorted(rows, key=date): a stable sort
RECURSIVE InsertByDate(_, _)
InsertByDate(sorted, row) ==
    IF sorted = <<>> THEN <<row>>
    ELSE IF Head(sorted).date <= row.date
         THEN <<Head(sorted)>> \o InsertByDate(Tail(sorted), row)
         ELSE <<row>> \o sorted
RECURSIVE SortByDate(_, _)
SortByDate(rows, acc) ==
    IF rows = <<>> THEN acc ELSE SortByDate(Tail(rows), InsertByDate(acc, Head(rows)))

\* variant: the rows are written in the order of the mapping
write_csv_Unsorted(rows) == CatalogOf(rows)

\* lines 134-139: the file is opened with "w" and every row is written
write_csv(rows) == CatalogOf(SortByDate(rows, <<>>))

\* variant: the month's entries are kept
MergeMonth_NoPurge(all_rows, ym, new_rows) == DictPutAll(all_rows, new_rows)

\* lines 207-212: the month's entries are deleted, the new rows are put in
MergeMonth(all_rows, ym, new_rows) ==
    DictPutAll(SelectSeq(all_rows, LAMBDA row : row.yyyymm # ym), new_rows)

\* variant: a past month is skipped only when it has a row for every day
SkipMonth_IfComplete(all_rows, ym, force) ==
    /\ Len(SelectSeq(all_rows, LAMBDA row : row.yyyymm = ym))
          = DaysInMonth(ym \div 100, ym % 100)
    /\ ~force
    /\ ym < this_month

\* lines 187-192: the month is already in the mapping and lies in the past
SkipMonth(all_rows, ym, force) ==
    /\ \E i \in 1..Len(all_rows) : all_rows[i].yyyymm = ym
    /\ ~force
    /\ ym < this_month

----------------------------------------------------------------------------
(* SpecMonths: generate_months applied to every pair of month keys of a few
   years (the three copies, in scrape_bing.py, prepare_sync.py and
   build_date_catalog.py, are the same text) *)

YearSpan == 3
MonthKeys == {(2024 + y) * 100 + m : y \in 0..(YearSpan - 1), m \in 1..12}

\* everything but the catalog builder and the catalog file
notBuilder == <<this_month, root, high, stateFile, pc, args, done_months, done_images,
                failed_images, months, yyyymm, image_ids, n_fail, ret, log, reqs,
                rec, lastOp, nOps, hist>>

\* no scraper or reconciler run has taken place, the directory is empty
RestIdle ==
    /\ this_month = 202501
    /\ root = [f \in Files |-> NoFile]
    /\ high = [f \in Files |-> NoFile]
    /\ stateFile = NoStateFile
    /\ ScraperIdle
    /\ rec = NoRec
    /\ hist = NoHist
    /\ lastOp = "init"
    /\ nOps = 0

InitMonths ==
    /\ RestIdle
    /\ catalog = NoCatalog
    /\ \E s \in MonthKeys, e \in MonthKeys : cb = [pc |-> "args", start |-> s, end |-> e]

GenerateMonths ==
    /\ cb.pc = "args"
    /\ cb' = [pc |-> "months", start |-> cb.start, end |-> cb.end,
              months |-> generate_months(cb.start, cb.end)]
    /\ UNCHANGED catalog
    /\ UNCHANGED notBuilder

NextMonths == GenerateMonths

SpecMonths == InitMonths /\ [][NextMonths]_vars

----------------------------------------------------------------------------
(* build_date_catalog.main, step by step.  cb holds its variables:
     pc        "month" (head of the loop), "fetch" (inside get_with_retry),
               "parse" (get_image_ids after the response), "merge",
               "done" (returned), "raised" (an exception left main)
     tries     history: the outcomes of the requests of the current fetch
     sleeps    history: the waits of the current fetch, in seconds
     new_rows  the result of assign_dates for the current month (line 205) *)

\* lines 177-183
BuildStart(a) ==
    /\ cb.pc = "idle"
    /\ cb' = [pc |-> "month", args |-> a,
              months |-> generate_months(a.start, a.end),
              yyyymm |-> 0,
              all_rows |-> load_existing(catalog),
              attempt |-> 0, tries |-> <<>>, sleeps |-> <<>>,
              resp |-> NoResponse, image_ids |-> <<>>, new_rows |-> <<>>]
    /\ UNCHANGED catalog
    /\ UNCHANGED notBuilder

\* lines 187-194
BuildSkipMonth ==
    /\ cb.pc = "month" /\ cb.months # <<>>
    /\ SkipMonth(cb.all_rows, Head(cb.months), cb.args.force)
    /\ cb' = [cb EXCEPT !.months = Tail(@)]
    /\ UNCHANGED catalog
    /\ UNCHANGED notBuilder

\* lines 196-197, 84: get_image_ids calls get_with_retry
BuildFetch ==
    /\ cb.pc = "month" /\ cb.months # <<>>
    /\ ~SkipMonth(cb.all_rows, Head(cb.months), cb.args.force)
    /\ cb' = [cb EXCEPT !.pc = "fetch", !.yyyymm = Head(cb.months),
                        !.months = Tail(@), !.attempt = 0,
                        !.tries = <<>>, !.sleeps = <<>>,
                        !.resp = NoResponse, !.image_ids = <<>>,
                        !.new_rows = <<>>]
    /\ UNCHANGED catalog
    /\ UNCHANGED notBuilder

\* variant: the error of the last attempt leaves get_with_retry
BuildRequest_Propagate(outcome, page) ==
    /\ cb.pc = "fetch" /\ cb.attempt < MAX_RETRIES
    /\ cb' = IF outcome = "ok"
             THEN [cb EXCEPT !.tries = Append(@, outcome), !.resp = IndexPage(page),
                             !.pc = "parse"]
             ELSE IF outcome = "404"
             THEN [cb EXCEPT !.tries = Append(@, outcome), !.resp = NoResponse,
                             !.pc = "parse"]
             ELSE [cb EXCEPT !.tries = Append(@, outcome),
                             !.sleeps = @ \o RetrySleep(cb.attempt),
                             !.attempt = @ + 1,
                             !.resp = NoResponse,
                             !.pc = IF cb.attempt + 1 < MAX_RETRIES THEN "fetch"
                                    ELSE "raised"]
    /\ UNCHANGED catalog
    /\ UNCHANGED notBuilder

\* lines 67-79: one pass of the loop of get_with_retry.  outcome: "ok" (a
\* response that is not a 404 and passes raise_for_status), "404", "error"
\* (session.get or raise_for_status raises a RequestException)
BuildRequest(outcome, page) ==
    /\ cb.pc = "fetch" /\ cb.attempt < MAX_RETRIES
    /\ cb' = IF outcome = "ok"
             THEN [cb EXCEPT !.tries = Append(@, outcome), !.resp = IndexPage(page),
                             !.pc = "parse"]
             ELSE IF outcome = "404"
             THEN [cb EXCEPT !.tries = Append(@, outcome), !.resp = NoResponse,
                             !.pc = "parse"]
             ELSE [cb EXCEPT !.tries = Append(@, outcome),
                             !.sleeps = @ \o RetrySleep(cb.attempt),
                             !.attempt = @ + 1,
                             !.resp = NoResponse,
                             !.pc = IF cb.attempt + 1 < MAX_RETRIES THEN "fetch"
                                    ELSE "parse"]
    /\ UNCHANGED catalog
    /\ UNCHANGED notBuilder

\* lines 86-96: the rest of get_image_ids
BuildParse ==
    /\ cb.pc = "parse"
    /\ cb' = [cb EXCEPT !.image_ids = get_image_ids(cb.resp), !.pc = "merge"]
    /\ UNCHANGED catalog
    /\ UNCHANGED notBuilder

\* variant: the month's entries are deleted before the listing is looked at
BuildNoImages_Purge ==
    /\ cb.pc = "merge" /\ cb.image_ids = <<>>
    /\ cb' = [cb EXCEPT !.pc = "month",
                        !.all_rows = SelectSeq(@, LAMBDA row : row.yyyymm # cb.yyyymm)]
    /\ UNCHANGED catalog
    /\ UNCHANGED notBuilder

\* lines 200-202
BuildNoImages ==
    /\ cb.pc = "merge" /\ cb.image_ids = <<>>
    /\ cb' = [cb EXCEPT !.pc = "month"]
    /\ UNCHANGED catalog
    /\ UNCHANGED notBuilder

\* lines 204-212
BuildMerge ==
    /\ cb.pc = "merge" /\ cb.image_ids # <<>>
    /\ LET new_rows == assign_dates(cb.yyyymm, cb.image_ids)
       IN  /\ ~new_rows.raised
           /\ cb' = [cb EXCEPT !.new_rows = new_rows.rows,
                               !.all_rows = MergeMonth(@, cb.yyyymm, new_rows.rows),
                               !.pc = "month"]
    /\ UNCHANGED catalog
    /\ UNCHANGED notBuilder

\* variant: the mapping is written before the exception leaves main
BuildRaise_Flush ==
    /\ cb.pc = "merge" /\ cb.image_ids # <<>>
    /\ assign_dates(cb.yyyymm, cb.image_ids).raised
    /\ cb' = [cb EXCEPT !.pc = "raised"]
    /\ catalog' = write_csv(cb.all_rows)
    /\ UNCHANGED notBuilder

\* line 205 / 112: the ValueError of date() leaves assign_dates and main;
\* line 214 is not reached
BuildRaise ==
    /\ cb.pc = "merge" /\ cb.image_ids # <<>>
    /\ assign_dates(cb.yyyymm, cb.image_ids).raised
    /\ cb' = [cb EXCEPT !.pc = "raised"]
    /\ UNCHANGED catalog
    /\ UNCHANGED notBuilder

\* lines 214-215
BuildWrite ==
    /\ cb.pc = "month" /\ cb.months = <<>>
    /\ catalog' = write_csv(cb.all_rows)
    /\ cb' = [cb EXCEPT !.pc = "done"]
    /\ UNCHANGED notBuilder

----------------------------------------------------------------------------
(* SpecBuild: one catalog build over a catalog file left by earlier builds;
   202501 is the current month *)

MaxLinks == 3
MaxIds == 32


\* the ids "1", "2", ..., n in page order
Numbered(n) == [k \in 1..n |-> ToString(k)]

\* the item links of an index page, as the last path segment of each href:
\* short pages with repeated and empty ids, and pages about a month long
BuildPages ==
    SeqsUpTo(Ids \cup {""}, MaxLinks) \cup {<<"A", "B", "C">>}
        \cup {Numbered(n) : n \in 28..MaxIds}

BuildArgs ==
    {[start |-> w[1], end |-> w[2], force |-> f] :
        w \in {<<202412, 202501>>, <<202501, 202502>>, <<202502, 202501>>},
        f \in BOOLEAN}

\* catalogs that builds of 202412 and 202501 have written
BuildCatalogs ==
    { NoCatalog,
      FullCatalog,
      CatalogOf(<<CatalogRow(202412, "A", 1), CatalogRow(202412, "B", 2),
                  CatalogRow(202501, "B", 1), CatalogRow(202501, "A", 2)>>) }

InitBuild ==
    /\ RestIdle
    /\ catalog \in BuildCatalogs
    /\ cb = NoBuilder

BuildStep ==
    \/ BuildSkipMonth
    \/ BuildFetch
    \/ \E outcome \in {"ok", "404", "error"}, page \in BuildPages :
          BuildRequest(outcome, page)
    \/ BuildParse
    \/ BuildNoImages
    \/ BuildMerge
    \/ BuildRaise
    \/ BuildWrite

NextBuild ==
    \/ \E a \in BuildArgs : BuildStart(a)
    \/ BuildStep

SpecBuild == InitBuild /\ [][NextBuild]_vars

----------------------------------------------------------------------------
(* SpecBuildFault: a catalog build whose process can be terminated while
   write_csv writes the file *)

\* lines 136-139: open(..., "w") has truncated the file and n of the sorted
\* rows have reached it when the process ends; nothing is written elsewhere
\* first, nothing restores the old content
BuildKillWrite(n) ==
    /\ cb.pc = "month" /\ cb.months = <<>>
    /\ n \in 0..(Len(cb.all_rows) - 1)
    /\ catalog' = CatalogOf(SubSeq(write_csv(cb.all_rows).rows, 1, n))
    /\ cb' = [cb EXCEPT !.pc = "killed"]
    /\ UNCHANGED notBuilder

NextBuildFault ==
    \/ NextBuild
    \/ /\ cb.pc = "month"
       /\ \E n \in {0, Len(cb.all_rows) - 1} : BuildKillWrite(n)

SpecBuildFault == InitBuild /\ [][NextBuildFault]_vars

----------------------------------------------------------------------------
(* SpecBuilds: any number of catalog builds, one after another, starting
   without a catalog file; 202501 is the current month *)

\* line 215 or the traceback of an uncaught exception: the process has ended
BuildExit ==
    /\ cb.pc \in {"done", "raised"}
    /\ cb' = NoBuilder
    /\ UNCHANGED catalog
    /\ UNCHANGED notBuilder

\* listings of a month: none and short ones; for February also a full month
\* and one day more than the month has
ListingPages(ym) ==
    {<<>>, <<"A">>, <<"B", "A">>}
        \cup (IF ym = 202502 THEN {Numbered(28), Numbered(29)} ELSE {})

BuildsArgs ==
    {[start |-> w[1], end |-> w[2], force |-> f] :
        w \in {<<202412, 202501>>, <<202501, 202502>>}, f \in BOOLEAN}

InitBuilds ==
    /\ RestIdle
    /\ catalog = NoCatalog
    /\ cb = NoBuilder

NextBuilds ==
    \/ \E a \in BuildsArgs : BuildStart(a)
    \/ BuildSkipMonth
    \/ BuildFetch
    \/ /\ cb.pc = "fetch"
       /\ \E outcome \in {"ok", "404", "error"}, page \in ListingPages(cb.yyyymm) :
             BuildRequest(outcome, page)
    \/ BuildParse
    \/ BuildNoImages
    \/ BuildMerge
    \/ BuildRaise
    \/ BuildWrite
    \/ BuildExit

SpecBuilds == InitBuilds /\ [][NextBuilds]_vars

----------------------------------------------------------------------------
(* SpecCsv: write_csv followed by load_existing, for every short sequence of
   records with pairwise distinct (yyyymm, image_id) *)

MaxRows == 3

DistinctKeys(rows) ==
    \A i, j \in 1..Len(rows) :
        (rows[i].yyyymm = rows[j].yyyymm /\ rows[i].image_id = rows[j].image_id) => i = j

CsvRows == {CatalogRow(m, i, d) : m \in Months, i \in Ids, d \in 1..2}
CsvInputs == {q \in SeqsUpTo(CsvRows, MaxRows) : DistinctKeys(q)}

InitCsv ==
    /\ RestIdle
    /\ catalog \in {NoCatalog, FullCatalog}
    /\ \E q \in CsvInputs : cb = [pc |-> "rows", rows |-> q, loaded |-> <<>>]

\* lines 134-139
CsvWrite ==
    /\ cb.pc = "rows"
    /\ catalog' = write_csv(cb.rows)
    /\ cb' = [cb EXCEPT !.pc = "written"]
    /\ UNCHANGED notBuilder

\* lines 122-131
CsvLoad ==
    /\ cb.pc = "written"
    /\ cb' = [cb EXCEPT !.pc = "loaded", !.loaded = load_existing(catalog)]
    /\ UNCHANGED catalog
    /\ UNCHANGED notBuilder

NextCsv == CsvWrite \/ CsvLoad

SpecCsv == InitCsv /\ [][NextCsv]_vars

----------------------------------------------------------------------------
(* Vocabulary of the reconciler properties, stated on the files themselves *)

CatalogEntries == IF catalog.exists THEN ToSet(catalog.rows) ELSE {}
RecEntries ==
    {row \in CatalogEntries : rec.start <= row.yyyymm /\ row.yyyymm <= rec.end}
FileOnDisk(f) ==
    \/ high[f].exists /\ high[f].size >= MIN_FILE_SIZE
    \/ root[f].exists /\ root[f].size >= MIN_FILE_SIZE
FileMissing(f) ==
    /\ ~high[f].exists \/ high[f].size < MIN_FILE_SIZE
    /\ ~root[f].exists \/ root[f].size < MIN_FILE_SIZE
RowKey(row) == Key(row.yyyymm, row.image_id)
MonthHasEntry(m) == \E row \in RecEntries : row.yyyymm = m
MonthHasMissing(m) == \E row \in RecEntries : row.yyyymm = m /\ FileMissing(row.filename)
\* the state was produced by a prepare_sync run: catalog and disk are as it saw them
AfterRec == lastOp = "prepare_sync"
AllMonths == Months \cup {this_month}

(* C1: after a reconciliation run every catalog entry of the window whose file
   is on disk has its key in done_images and not in failed_images. *)
C1_PresentDoneNotFailed ==
    AfterRec =>
        \A row \in RecEntries :
            FileOnDisk(row.filename) =>
                /\ RowKey(row) \in stateFile.done_images
                /\ RowKey(row) \notin stateFile.failed_images

(* C2: after a reconciliation run every catalog entry of the window whose file
   is absent from, or too small in, both locations has its key in neither
   done_images nor failed_images. *)
C2_MissingCleared ==
    AfterRec =>
        \A row \in RecEntries :
            FileMissing(row.filename) =>
                /\ RowKey(row) \notin stateFile.done_images
                /\ RowKey(row) \notin stateFile.failed_images

C2_Witness ==
    /\ AfterRec
    /\ \E row \in RecEntries :
          /\ root[row.filename].exists /\ high[row.filename].exists
          /\ FileMissing(row.filename)
          /\ RowKey(row) \in rec.pre.done_images
          /\ RowKey(row) \in rec.pre.failed_images

(* C3: a reconciliation run adds a month to done_months exactly when the month
   has a catalog entry in the window, none of its entries is missing and it is
   not the current month; a month without an entry in the window is not added. *)
C3_MonthAddedIff ==
    AfterRec =>
        \A m \in AllMonths :
            LET complete == /\ MonthHasEntry(m)
                            /\ ~MonthHasMissing(m)
                            /\ m # this_month
            IN  /\ complete => m \in stateFile.done_months
                /\ (m \in stateFile.done_months /\ m \notin rec.pre.done_months)
                      => complete
                /\ ~MonthHasEntry(m) =>
                      (m \in stateFile.done_months => m \in rec.pre.done_months)

C3_Witness ==
    /\ AfterRec
    /\ \E m \in AllMonths :
          /\ m \notin rec.pre.done_months
          /\ m \in stateFile.done_months
    /\ \E m \in AllMonths :
          /\ MonthHasEntry(m) /\ MonthHasMissing(m)
          /\ m \notin stateFile.done_months

(* C4: after a reconciliation run no month with a missing catalog entry in the
   window is in done_months, even if it was there before the run. *)
C4_MonthWithMissingRemoved ==
    AfterRec =>
        \A m \in AllMonths : MonthHasMissing(m) => m \notin stateFile.done_months

C4_Witness ==
    /\ AfterRec
    /\ \E m \in AllMonths :
          /\ MonthHasMissing(m)
          /\ m # this_month
          /\ m \in rec.pre.done_months
          /\ m \notin stateFile.done_months

(* C5: after every reconciliation run the current calendar month is not in
   done_months, whatever the window, the disk and the prior state. *)
C5_CurrentMonthNeverDone ==
    AfterRec => this_month \notin stateFile.done_months

C5_Witness ==
    /\ AfterRec
    /\ this_month \in rec.pre.done_months
    /\ MonthHasEntry(this_month)
    /\ ~MonthHasMissing(this_month)

(* C6: the reconciliation run returns 0 exactly when no catalog entry of the
   window is missing from disk (also with no catalog file, or no entry in the
   window) and 1 exactly when at least one is missing. *)
C6_ExitSignal ==
    AfterRec =>
        LET anyMissing == \E row \in RecEntries : FileMissing(row.filename)
        IN  /\ rec.ret \in {0, 1}
            /\ (rec.ret = 1) <=> anyMissing
            /\ (rec.ret = 0) <=> ~anyMissing

C6_Witness ==
    /\ AfterRec
    /\ rec.ret = 0
    /\ catalog.exists
    /\ RecEntries = {}
    /\ \E row \in CatalogEntries : FileMissing(row.filename)

(* C7: a second reconciliation run over the same window, with catalog, disk
   and calendar month unchanged, leaves the three sets as the first run left
   them and returns the same exit signal. *)
C7_Idempotent ==
    [][ ( /\ lastOp = "prepare_sync" /\ lastOp' = "prepare_sync"
          /\ rec'.start = rec.start /\ rec'.end = rec.end
          /\ catalog' = catalog /\ root' = root /\ high' = high
          /\ this_month' = this_month )
        => (stateFile' = stateFile /\ rec'.ret = rec.ret) ]_vars

C7_Witness ==
    /\ AfterRec
    /\ rec.prev_ran /\ rec.prev_start = rec.start /\ rec.prev_end = rec.end
    /\ rec.ret = 1
    /\ stateFile.done_images # {}
    /\ stateFile.done_months # {}

----------------------------------------------------------------------------
(* Scraper properties *)

(* C8: in every persisted scrape state reachable from the empty state by
   scraper runs and reconciliation runs, no item key is in both done_images
   and failed_images. *)
C8_DoneFailedDisjoint ==
    stateFile.done_images \cap stateFile.failed_images = {}

\* the step handles one item of the listing
ItemStep == Len(log') = Len(log) + 1 /\ log'[Len(log')][1] = "item"

(* C9: when the file of the item the scraper handles is in the disk inventory
   (either location, at least the minimum size), no remote request is issued
   for the item, whatever the state sets hold. *)
C9_DiskShortCircuit ==
    [][ ( /\ pc = "item" /\ image_ids # <<>>
          /\ FileOnDisk(FileName(yyyymm, Head(image_ids)))
          /\ ItemStep )
        => reqs' = <<>> ]_vars

LogOrdered ==
    \A k \in 1..Len(log) :
        LET e == log[k]
        IN  /\ e[1] = "index" => (k = 1 \/ log[k - 1][1] = "save")
            /\ e[1] = "item" =>
                  /\ k > 1
                  /\ log[k - 1][1] \in {"index", "item"}
                  /\ log[k - 1][2] = e[2]
            /\ e[1] = "save" =>
                  /\ k > 1
                  /\ log[k - 1][1] \in {"index", "item"}
                  /\ log[k - 1][2] = e[2]
            /\ \A j \in 1..(k - 1) :
                  (log[j][1] = e[1] /\ e[1] \in {"index", "save"}) => log[j][2] # e[2]

SavesOf(m) == {k \in 1..Len(log) : log[k] = <<"save", m>>}
IndexOf(m) == {k \in 1..Len(log) : log[k] = <<"index", m>>}

(* C10: in a scraper run the months are handled one after another; each
   visited month's index request comes first, then its items, then exactly one
   write of the state file, before the index request of the next month; the
   state file is not written between two items of a month. *)
C10_CheckpointOrdering ==
    /\ LogOrdered
    /\ (pc = "item" /\ log # <<>>) => SavesOf(yyyymm) = {}
    /\ (pc = "idle" /\ lastOp = "scrape_finish") =>
          \A m \in ToSet(generate_months(args.start, args.end)) :
              /\ m \in done_months
              /\ Cardinality(IndexOf(m)) = Cardinality(SavesOf(m))
              /\ Cardinality(SavesOf(m)) <= 1
    /\ (log # <<>> /\ log[Len(log)][1] = "save") =>
          stateFile = [exists |-> TRUE, valid |-> TRUE, done_months |-> done_months,
                       done_images |-> done_images, failed_images |-> failed_images]

C10_Witness ==
    /\ pc = "idle" /\ lastOp = "scrape_finish"
    /\ args.reverse
    /\ log = << <<"index", 202501>>, <<"item", 202501, "A">>, <<"save", 202501>>,
                <<"index", 202412>>, <<"item", 202412, "A">>,
                <<"item", 202412, "B">>, <<"save", 202412>> >>

----------------------------------------------------------------------------
(* Scraper properties: faults and repeated runs *)

\* the step ends a scraper run by terminating it
KillStep == pc # "idle" /\ pc' = "idle" /\ lastOp' \in KillOps
\* the run in progress follows a terminated run and reads the state file
Resumed == hist.after \in KillOps /\ ~args.reset
\* the step issues the index request of a month
IndexStep ==
    /\ Len(log') > Len(log)
    /\ log'[Len(log) + 1][1] = "index"

\* a terminated run leaves the state file as its last checkpoint left it
StateAsCheckpointed == KillStep => stateFile' = stateFile
\* no index request for a month the state file holds as done
NoRequestDoneMonth ==
    (Resumed /\ pc = "month" /\ months # <<>>
     /\ Head(months) \in stateFile.done_months) => ~IndexStep
\* no item request for a file the terminated run had written completely
NoRequestDownloaded ==
    (Resumed /\ pc = "item" /\ image_ids # <<>> /\ ItemStep
     /\ FileName(yyyymm, Head(image_ids)) \in hist.prev_downloaded)
    => reqs' = <<>>

(* C11: when a scraper run is terminated at any point, the state file holds
   the three sets as of the last completed month's checkpoint (or what it held
   before the run); the following run without --reset issues no index request
   for a month in the persisted done_months and no item request for an item
   whose file the terminated run had downloaded completely. *)
C11_ResumeAfterInterruption ==
    [][StateAsCheckpointed /\ NoRequestDoneMonth /\ NoRequestDownloaded]_vars

\* the item the scraper is about to handle
CurKey == Key(yyyymm, Head(image_ids))
CurDest == FileName(yyyymm, Head(image_ids))
\* the direct CDN answer is not accepted: no response, too short, or not a JPEG
CdnFails(cdn) == ~cdn.ok \/ cdn.len < MIN_FILE_SIZE \/ ~cdn.jpeg

(* C12: in cdn-first mode without direct-only, whenever the direct CDN attempt
   fails (no response, payload shorter than 50,000 bytes, or payload without
   the JPEG signature) the detail resource is requested, and its link is
   downloaded when one is found, before the item is added to failed_images;
   with direct-only the detail resource is never requested. *)
C12_CdnFirstFallback ==
    [][ \A cdn \in CdnResponsesAll, detail \in DetailResponses, dl \in DownloadResponses :
          ScraperDownload(cdn, detail, dl) =>
            /\ (args.cdn_first /\ ~args.direct_only /\ CdnFails(cdn)) =>
                  /\ Len(reqs') >= 2 /\ reqs'[1] = "cdn" /\ reqs'[2] = "detail"
                  /\ (detail.ok /\ detail.hrefs # <<>>) =>
                        reqs' = <<"cdn", "detail", get_4k_url_from_detail(detail)>>
                  /\ (CurKey \in failed_images' /\ n_fail' > n_fail) =>
                        \/ ~detail.ok \/ detail.hrefs = <<>>
                        \/ ~dl.ok \/ dl.len < MIN_FILE_SIZE
            /\ args.direct_only => reqs' = <<"cdn">>
      ]_vars

C12_Witness ==
    /\ lastOp = "scrape_download"
    /\ args.cdn_first /\ ~args.direct_only
    /\ reqs = <<"cdn", "detail", "u3840">>
    /\ log # <<>> /\ Key(log[Len(log)][2], log[Len(log)][3]) \in failed_images
    /\ n_fail > 0

\* the state is the one a month's checkpoint left
AtCheckpoint == log # <<>> /\ log[Len(log)][1] = "save" /\ lastOp # "scrape_start"
CheckpointMonth == log[Len(log)][2]

(* C13: when every source attempted for an item fails, then at the month's
   checkpoint the item key is in failed_images and not in done_images of the
   state file, and no file is at the item's target path, a small file that
   was there before the attempt included. *)
C13_AllSourcesFail ==
    AtCheckpoint =>
        \A key \in hist.failed :
            key[1] = CheckpointMonth =>
                /\ key \in stateFile.failed_images
                /\ key \notin stateFile.done_images
                /\ ~root[FileName(key[1], key[2])].exists

C13_Witness ==
    /\ AtCheckpoint /\ CheckpointMonth = 202412
    /\ hist.failed = {Key(202412, "A"), Key(202412, "B")}
    /\ args.cdn_first /\ ~args.direct_only

\* the file the source chain accepts and writes for the item at hand
Accepted(cdn, detail, dl) == Attempt(args, root[CurDest], cdn, detail, dl).dest
\* a later run counts the file as present (scrape_bing line 252, prepare_sync
\* line 66)
CountedPresent(file) == file.exists /\ file.size >= MIN_FILE_SIZE

(* C14: a payload shorter than the minimum size is never written to the
   target path, and an accepted payload is written atomically: at every
   moment, also when the process is terminated during the write, the target
   path holds no new file or the complete accepted payload, never a truncated
   one that a later run would count as present. *)
C14_NoCorruptFile ==
    [][ \A cdn \in FaultCdnResponses, detail \in DetailResponses,
           dl \in FaultDownloadResponses :
          /\ ScraperDownload(cdn, detail, dl) =>
                /\ root'[CurDest] \in {NoFile, Accepted(cdn, detail, dl)}
                /\ root'[CurDest].exists => root'[CurDest].size >= MIN_FILE_SIZE
          /\ \A n \in TornSizes :
                ScraperKillWrite(cdn, detail, dl, n) =>
                    \/ root'[CurDest] \in {root[CurDest], Accepted(cdn, detail, dl)}
                    \/ ~CountedPresent(root'[CurDest])
      ]_vars

(* C15: whatever the outcome of a remote call (request error on every
   attempt, 404, undersized or non-image payload, connection dropped while
   the body is streamed), the scraper run is not aborted: it goes on with the
   remaining items and months, the failure being recorded in failed_images
   and the failure count only. *)
C15_ContinuesPastFailures ==
    [][ /\ (pc = "month" /\ IndexStep /\ lastOp' \notin KillOps) =>
              /\ pc' \in {"month", "item"}
              /\ months' = Tail(months)
        /\ (pc = "item" /\ image_ids # <<>> /\ ItemStep /\ lastOp' \notin KillOps) =>
              /\ pc' = "item"
              /\ image_ids' = Tail(image_ids)
              /\ months' = months
              /\ (reqs' # <<>> /\ ~root'[CurDest].exists) =>
                    (CurKey \in failed_images' /\ n_fail' = n_fail + 1)
      ]_vars

\* the run reached line 305
Finished == pc = "idle" /\ lastOp = "scrape_finish"

(* C16: a scraper run that reaches its end returns 0 exactly when no item
   attempt failed during this run and 1 when at least one did; keys in
   failed_images from earlier runs and months whose index returned nothing do
   not make the code 1. *)
C16_ScraperExitCode ==
    Finished =>
        /\ ret \in {0, 1}
        /\ ret = 0 <=> hist.failed = {}

C16_Witness ==
    /\ Finished /\ ret = 0
    /\ failed_images # {}
    /\ log = << <<"index", 202412>>, <<"save", 202412>>,
                <<"index", 202501>>, <<"item", 202501, "A">>, <<"save", 202501>> >>

\* the run in progress was started right after a reconciliation, over the
\* reconciled window
AfterReconcile ==
    /\ hist.after = "prepare_sync"
    /\ rec.ran /\ args.start = rec.start /\ args.end = rec.end
Catalogued(key) == \E row \in CatalogEntries : RowKey(row) = key

(* C17: after a reconciliation over a window, a scraper run over the same
   window issues an item request (CDN or detail) for a catalogued item only if
   the item was missing from the disk inventory at reconciliation; a
   catalogued item present in either disk location is skipped without an item
   request. *)
C17_OnlyMissingRequested ==
    [][ (AfterReconcile /\ pc = "item" /\ image_ids # <<>> /\ ItemStep
         /\ Catalogued(CurKey)) =>
           /\ FileOnDisk(CurDest) => reqs' = <<>>
           /\ reqs' # <<>> => CurKey \in rec.missing
      ]_vars

\* the run follows a completed run over the same range and reads the state file
Rerun ==
    /\ hist.after = "scrape_finish"
    /\ hist.prev_range = <<args.start, args.end>>
    /\ ~args.reset
\* a step of the scraper: its start, a step of its loops, its end
RunStep == pc # "idle" \/ pc' # "idle"

(* C18: after a scraper run has completed, a second run with the same range
   and without --reset, remote archive and disk unchanged, issues no request
   and no download for any item, and leaves done_months, done_images and
   failed_images in the state file as the first run wrote them. *)
C18_RerunIdempotent ==
    [][ (RunStep /\ Rerun') =>
           /\ stateFile' = stateFile
           /\ root' = root
           /\ log' = <<>> /\ reqs' = <<>>
      ]_vars

C18_Witness ==
    /\ Rerun /\ Finished
    /\ stateFile.failed_images # {} /\ stateFile.done_images # {}
    /\ stateFile.done_months = {202412, 202501}

(* C19: when the index fetch of a month yields no item ids (404, retries
   exhausted, or a page without item links), the scraper adds the month to
   done_months and writes the checkpoint at once; no item is attempted and
   done_images and failed_images are unchanged; a month that is over is
   recorded like a month not yet published. *)
C19_EmptyListingMarksMonth ==
    [][ \A m \in Months : \A resp \in IndexResponses(m) :
          ( /\ pc = "month" /\ months # <<>> /\ Head(months) = m
            /\ get_image_ids(resp) = <<>>
            /\ ScraperIndexEmpty(resp) \/ ScraperIndexItems(resp) ) =>
              /\ done_months' = done_months \cup {m}
              /\ stateFile' = [exists |-> TRUE, valid |-> TRUE,
                               done_months |-> done_months \cup {m},
                               done_images |-> done_images,
                               failed_images |-> failed_images]
              /\ done_images' = done_images /\ failed_images' = failed_images
              /\ pc' = "month" /\ months' = Tail(months)
              /\ reqs' = reqs /\ root' = root /\ n_fail' = n_fail
              /\ log' = log \o << <<"index", m>>, <<"save", m>> >>
      ]_vars

C19_Witness ==
    /\ lastOp = "scrape_index_empty"
    /\ yyyymm = 202412 /\ yyyymm < this_month
    /\ log = << <<"index", 202412>>, <<"save", 202412>> >>
    /\ 202412 \in stateFile.done_months
    /\ stateFile.failed_images # {}

\* a program is started while the state file exists and is not a well-formed
\* document
StartOnBadState ==
    /\ stateFile.exists /\ ~stateFile.valid
    /\ pc = "idle" /\ nOps' = nOps + 1
\* the started program goes on with three empty sets, as if the file were absent
ProceedsEmpty ==
    \/ /\ lastOp' = "scrape_start" /\ pc' = "month"
       /\ done_months' = {} /\ done_images' = {} /\ failed_images' = {}
    \/ /\ lastOp' = "prepare_sync"
       /\ rec'.pre.done_months = {} /\ rec'.pre.done_images = {}
       /\ rec'.pre.failed_images = {}
\* prepare_sync without a catalog file sees no entry and reports nothing missing
AbsentCatalogEmpty ==
    (lastOp' = "prepare_sync" /\ nOps' = nOps + 1 /\ ~catalog.exists) =>
        (rec'.present = {} /\ rec'.missing = {} /\ rec'.ret = 0)

(* C20: when the state file exists but is unreadable or not a well-formed
   document, loading it yields three empty sets and the run proceeds without
   raising an error, as when the file is absent; an absent catalog file yields
   an empty mapping, not an error. *)
C20_PersistenceErrors ==
    [][ (StartOnBadState => ProceedsEmpty) /\ AbsentCatalogEmpty ]_vars

----------------------------------------------------------------------------
(* Catalog builder and shared helpers *)

\* the month keys from start to end, each a real calendar month
KeysBetween(start, end) ==
    {k \in start..end : k % 100 \in 1..12}

(* C21: for valid month keys start and end, generate_months returns exactly
   the month keys m with start <= m <= end, in strictly ascending order, each
   once, December followed by January of the next year (202411..202502 gives
   202411, 202412, 202501, 202502); when start > end the list is empty. *)
C21_MonthRange ==
    cb.pc = "months" =>
        LET r == cb.months
        IN  /\ ToSet(r) = KeysBetween(cb.start, cb.end)
            /\ \A i \in 1..Len(r) : \A j \in 1..Len(r) : i < j => r[i] < r[j]
            /\ \A i \in 1..(Len(r) - 1) :
                  r[i] % 100 = 12 => r[i + 1] = (r[i] \div 100 + 1) * 100 + 1
            /\ (cb.start = 202411 /\ cb.end = 202502) =>
                  r = <<202411, 202412, 202501, 202502>>
            /\ cb.start > cb.end => r = <<>>

C21_Witness ==
    /\ cb.pc = "months" /\ cb.start = 202411 /\ cb.end = 202502
    /\ Len(cb.months) = 4

\* the catalog build is inside or past a call of get_with_retry
Fetching == cb.pc \in {"fetch", "parse", "merge"}
ErrorsOf(tries) == Cardinality({k \in 1..Len(tries) : tries[k] = "error"})

(* C22: one call of get_with_retry issues at most 3 requests; request k+1 is
   issued only if request k ended in a request error (a successful response
   or a 404 ends the call at once); the call waits 1 second after the first
   failed attempt, 2 seconds after the second, and not after the third. *)
C22_BoundedRetry ==
    Fetching =>
        /\ Len(cb.tries) <= 3
        /\ \A k \in 1..(Len(cb.tries) - 1) : cb.tries[k] = "error"
        /\ cb.pc = "fetch" =>
              (Len(cb.tries) < 3 /\ \A k \in 1..Len(cb.tries) : cb.tries[k] = "error")
        /\ cb.sleeps = CASE ErrorsOf(cb.tries) = 0 -> <<>>
                          [] ErrorsOf(cb.tries) = 1 -> <<1>>
                          [] OTHER -> <<1, 2>>

C22_Witness ==
    /\ cb.pc = "parse"
    /\ cb.tries = <<"error", "error", "error">>
    /\ cb.sleeps = <<1, 2>>
    /\ ~cb.resp.ok

\* the last fetch ended without a response: a 404, or three request errors
SoftFailed ==
    /\ cb.tries # <<>>
    /\ \/ cb.tries[Len(cb.tries)] = "404"
       \/ cb.tries = <<"error", "error", "error">>

(* C23: when the index resource answers 404, and when all 3 attempts end in a
   request error, get_image_ids returns the empty list and no exception
   reaches the caller. *)
C23_IndexSoftFailure ==
    (cb.pc \in {"merge", "raised"} /\ SoftFailed) =>
        (cb.pc = "merge" /\ cb.image_ids = <<>>)

C23_Witness ==
    /\ cb.pc = "merge"
    /\ cb.tries = <<"error", "error", "error">>
    /\ cb.image_ids = <<>>

\* the position of the first occurrence of x in the sequence h
FirstPos(h, x) == CHOOSE k \in 1..Len(h) : h[k] = x /\ \A j \in 1..(k - 1) : h[j] # x
\* get_image_ids has returned for a page that was served
Parsed == cb.pc = "merge" /\ cb.resp.ok

(* C24: for the item links of an index page, get_image_ids returns each
   distinct non-empty item id exactly once, in the order of the first
   occurrences on the page; no id is returned twice and no id that is not on
   the page is returned. *)
C24_IndexParsing ==
    Parsed =>
        LET h == cb.resp.hrefs
            ids == cb.image_ids
        IN  /\ \A i, j \in 1..Len(ids) : i # j => ids[i] # ids[j]
            /\ ToSet(ids) = ToSet(h) \ {""}
            /\ \A i, j \in 1..Len(ids) :
                  i < j => FirstPos(h, ids[i]) < FirstPos(h, ids[j])

C24_Witness ==
    /\ Parsed
    /\ cb.resp.hrefs = <<"B", "", "B">> \/ cb.resp.hrefs = <<"B", "A", "B">>
    /\ cb.image_ids \in {<<"B">>, <<"B", "A">>}

\* assign_dates has returned the records of the current month
Assigned == cb.pc \in {"month", "done"} /\ cb.new_rows # <<>>
DayOf(row) == row.date % 100
DaysOf(ym) == DaysInMonth(ym \div 100, ym % 100)

(* C25: for a month and an ordered list of n distinct ids with n at most the
   number of days of the month, assign_dates does not raise and gives the id
   at position p the day n - p + 1 of that month: one record per position,
   and the days of the records are exactly 1..n. *)
C25_DateAssignment ==
    /\ Assigned =>
          LET ids == cb.image_ids
              n == Len(ids)
              rows == cb.new_rows
          IN  /\ Len(rows) = n
              /\ \A p \in 1..n :
                    /\ rows[p].image_id = ids[p]
                    /\ rows[p].yyyymm = cb.yyyymm
                    /\ rows[p].date = cb.yyyymm * 100 + (n - p + 1)
              /\ {DayOf(rows[p]) : p \in 1..n} = 1..n
              /\ \A p, q \in 1..n : DayOf(rows[p]) = DayOf(rows[q]) => p = q
    /\ cb.pc = "raised" => Len(cb.image_ids) > DaysOf(cb.yyyymm)

C25_Witness ==
    /\ Assigned
    /\ cb.image_ids = <<"A", "B", "C">>
    /\ DayOf(cb.new_rows[1]) = 3 /\ cb.new_rows[1].image_id = "A"
    /\ DayOf(cb.new_rows[2]) = 2 /\ cb.new_rows[2].image_id = "B"
    /\ DayOf(cb.new_rows[3]) = 1 /\ cb.new_rows[3].image_id = "C"

\* the listing of the current month has more ids than the month has days
TooMany == Len(cb.image_ids) > DaysOf(cb.yyyymm)
RealDay(row) == DayOf(row) \in 1..DaysOf(row.yyyymm)

(* C26: when the listing of a month has more ids than the month has days,
   assign_dates raises and produces no record; no record with a day outside
   1..days-in-month is in the mapping or in the catalog file. *)
C26_DateValidation ==
    cb.pc # "idle" =>
        /\ TooMany => (cb.pc \in {"merge", "raised"} /\ cb.new_rows = <<>>)
        /\ \A i \in 1..Len(cb.all_rows) : RealDay(cb.all_rows[i])
        /\ \A i \in 1..Len(cb.new_rows) : RealDay(cb.new_rows[i])
        /\ \A i \in 1..Len(catalog.rows) : RealDay(catalog.rows[i])

C26_Witness ==
    /\ cb.pc = "raised"
    /\ cb.yyyymm = 202502
    /\ Len(cb.image_ids) = 29
    /\ cb.new_rows = <<>>

MonthRows(rows, ym) == SelectSeq(rows, LAMBDA row : row.yyyymm = ym)
OtherRows(rows, ym) == SelectSeq(rows, LAMBDA row : row.yyyymm # ym)
(* C27: after a month is fetched with a non-empty listing and merged, the
   mapping's records of that month are exactly the records assigned from the
   new listing, no (month, id) key occurs twice, and the records of every
   other month are unchanged. *)
C27_CatalogMerge ==
    [][BuildMerge =>
         /\ ToSet(MonthRows(cb'.all_rows, cb.yyyymm)) = ToSet(cb'.new_rows)
         /\ Len(MonthRows(cb'.all_rows, cb.yyyymm)) = Len(cb'.new_rows)
         /\ DistinctKeys(cb'.all_rows)
         /\ OtherRows(cb'.all_rows, cb.yyyymm) = OtherRows(cb.all_rows, cb.yyyymm)]_vars

C27_Witness ==
    /\ Assigned
    /\ cb.yyyymm = 202501
    /\ cb.new_rows = <<CatalogRow(202501, "A", 1)>>
    /\ \E i \in 1..Len(catalog.rows) :
          catalog.rows[i].yyyymm = 202501 /\ catalog.rows[i].image_id = "B"
    /\ MonthRows(cb.all_rows, 202501) = cb.new_rows
    /\ OtherRows(cb.all_rows, 202501) # <<>>

NonDecreasing(rows) == \A i, j \in 1..Len(rows) : i < j => rows[i].date <= rows[j].date

(* C28: for every sequence of catalog records with pairwise distinct
   (month key, item id), write_csv followed by load_existing returns a mapping
   with one entry per (month key, item id) whose values are exactly those
   records, whatever the order in which the records were given. *)
C28_CatalogRoundTrip ==
    cb.pc = "loaded" =>
        /\ DistinctKeys(cb.loaded)
        /\ Len(cb.loaded) = Len(cb.rows)
        /\ ToSet(cb.loaded) = ToSet(cb.rows)

C28_Witness ==
    /\ cb.pc = "loaded"
    /\ Len(cb.rows) = 3
    /\ ~NonDecreasing(cb.rows)
    /\ \E i, j \in 1..3 : i # j /\ cb.rows[i].image_id = cb.rows[j].image_id
    /\ ToSet(cb.loaded) = ToSet(cb.rows)

(* C29: if a catalog build is terminated while it writes the catalog file,
   the file holds its previous content or the complete new content; it is
   never left empty or truncated. *)
C29_InterruptedWrite ==
    [][cb'.pc = "killed" => catalog' \in {catalog, write_csv(cb.all_rows)}]_vars

(* C30: after every write the rows of the catalog file are in non-decreasing
   order of date, and the file holds every record of the mapping and no
   other row. *)
C30_CatalogOrder ==
    cb.pc = "done" =>
        /\ catalog.exists
        /\ NonDecreasing(catalog.rows)
        /\ Len(catalog.rows) = Len(cb.all_rows)
        /\ ToSet(catalog.rows) = ToSet(cb.all_rows)

C30_Witness ==
    /\ cb.pc = "done"
    /\ ~NonDecreasing(cb.all_rows)
    /\ NonDecreasing(catalog.rows)
    /\ ToSet(catalog.rows) = ToSet(cb.all_rows)

----------------------------------------------------------------------------
(* Scraper and catalog builder: behaviour over several runs *)

HasTag(links, width) == \E k \in 1..Len(links) : links[k].tag = width
\* the width the preference list picks on a page, 0 when none is there
BestTag(links) ==
    IF HasTag(links, 3840) THEN 3840
    ELSE IF HasTag(links, 2560) THEN 2560
    ELSE IF HasTag(links, 1920) THEN 1920
    ELSE 0
\* the first link of the page with the picked width
Preferred(links) ==
    links[CHOOSE k \in 1..Len(links) :
            /\ links[k].tag = BestTag(links)
            /\ \A j \in 1..(k - 1) : links[j].tag # BestTag(links)].href
\* the last item was attempted and its detail page was requested and served
DetailServed ==
    /\ lastOp = "scrape_download"
    /\ cb.pc = "remote" /\ cb.detail.ok
    /\ \E k \in 1..Len(reqs) : reqs[k] = "detail"

(* C31: from a detail page, get_4k_url_from_detail returns a link tagged
   w:3840 if there is one, otherwise one tagged w:2560, otherwise one tagged
   w:1920, otherwise nothing; among the links of the chosen tag it is the first
   in page order, and that link is the URL the scraper downloads. *)
C31_DetailPreference ==
    DetailServed =>
        /\ BestTag(cb.detail.hrefs) # 0 =>
              /\ reqs[Len(reqs)] = Preferred(cb.detail.hrefs)
              /\ reqs[Len(reqs) - 1] = "detail"
        /\ BestTag(cb.detail.hrefs) = 0 =>
              \A k \in 1..Len(reqs) : reqs[k] \in {"cdn", "detail"}

C31_Witness ==
    /\ lastOp = "scrape_download"
    /\ ~args.cdn_first
    /\ reqs = <<"detail", "w:2560#2">>
    /\ Len(cb.detail.hrefs) = 3 /\ cb.detail.hrefs[3].tag = 2560
    /\ root[FileName(202412, "B")].exists

\* the month is marked in memory and in the state file when its checkpoint is written
MonthMarked ==
    (Len(log') > Len(log) /\ log'[Len(log')][1] = "save") =>
        /\ log'[Len(log')][2] \in done_months'
        /\ log'[Len(log')][2] \in stateFile'.done_months
\* a run that reads the state file requests no index of a month marked in it
MarkedNotIndexed ==
    (~args.reset /\ pc = "month" /\ months # <<>>
     /\ Head(months) \in stateFile.done_months) =>
        (~IndexStep /\ reqs' = reqs /\ root' = root)
\* ... and handles no item of such a month
MarkedNotAttempted ==
    (pc' = "item" /\ ~args'.reset) => yyyymm' \notin stateFile'.done_months

(* C32: when the scraper finishes handling a month, the month is in
   done_months at the checkpoint in every case, also when items of it failed
   and when it is the current calendar month; a later run that reads the state
   file requests neither the index of that month nor any of its items. *)
C32_VisitedMonthMarked ==
    [][MonthMarked /\ MarkedNotIndexed /\ MarkedNotAttempted]_vars

C32_Witness ==
    /\ lastOp = "scrape_skip_month" /\ months = <<>>
    /\ hist.after = "scrape_finish" /\ ~args.reset
    /\ this_month \in stateFile.done_months
    /\ Key(this_month, "A") \in stateFile.failed_images
    /\ ~root[FileName(this_month, "A")].exists
    /\ log = <<>>

\* at the last reconciliation the item was catalogued, missing from disk, in
\* failed_images, and its month was in done_months
FailedAndDone(key) ==
    /\ key \in rec.missing
    /\ key \in rec.pre.failed_images
    /\ key[1] \in rec.pre.done_months
Logged(entry) == \E k \in 1..Len(log) : log[k] = entry
\* the run issued requests for the item: it ended as failed or as downloaded
AttemptedInRun(key) ==
    key \in hist.failed \/ FileName(key[1], key[2]) \in hist.downloaded
\* every listing the run fetched held the catalogued ids of its month
ListingsComplete ==
    \A row \in RecEntries :
        Logged(<<"index", row.yyyymm>>) => Logged(<<"item", row.yyyymm, row.image_id>>)
\* a completed run over the window of the reconciliation before it
RunAfterReconcile == Finished /\ AfterReconcile
\* every such item was attempted by the run
AllAttempted ==
    RunAfterReconcile => \A key \in rec.missing : FailedAndDone(key) => AttemptedInRun(key)
\* the month of every such item was fetched, and the item was attempted if
\* the listing held it
ListedAttempted ==
    RunAfterReconcile =>
        \A key \in rec.missing :
            FailedAndDone(key) =>
                /\ Logged(<<"index", key[1]>>)
                /\ Logged(<<"item", key[1], key[2]>>) => AttemptedInRun(key)
\* the reconciliation that follows a run without failures reports nothing to do
ThenNothingToDo ==
    ( /\ RunAfterReconcile /\ hist.failed = {} /\ ListingsComplete
      /\ lastOp' = "prepare_sync"
      /\ rec'.start = rec.start /\ rec'.end = rec.end ) =>
        (rec'.ret = 0 /\ rec'.missing = {})

(* C33: if an item is catalogued, missing from disk and in failed_images with
   its month in done_months, then after a reconciliation over a window that
   contains the month the next scraper run over that window attempts the item
   again; and if every download of that run succeeds and each listing holds
   the catalogued ids, the following reconciliation reports nothing to do. *)
C33_ReconcileThenScrape ==
    [][AllAttempted' /\ ThenNothingToDo]_vars

(* C33, amended: ... the next scraper run over that window fetches the index
   of the item's month again and, provided the listing it gets holds the item,
   attempts the item again; the second part as stated. *)
C33_ReconcileThenScrapeListed ==
    [][ListedAttempted' /\ ThenNothingToDo]_vars

C33_Witness ==
    /\ RunAfterReconcile /\ ~args.reset
    /\ FailedAndDone(Key(202412, "A"))
    /\ FileName(202412, "A") \in hist.downloaded
    /\ hist.failed = {} /\ ListingsComplete

\* the document a checkpoint writes from the sets the scraper holds in memory
MemoryState(dm, di, fi) ==
    [exists |-> TRUE, valid |-> TRUE, done_months |-> dm, done_images |-> di,
     failed_images |-> fi]
\* the step is a checkpoint of the scraper
SaveStep == Len(log') > Len(log) /\ log'[Len(log')][1] = "save"
\* a reconciliation that runs while the scraper runs does not reach its sets
ReadOnceAtStart ==
    (pc # "idle" /\ lastOp' = "prepare_sync") =>
        /\ done_months' = done_months
        /\ done_images' = done_images
        /\ failed_images' = failed_images
\* every checkpoint replaces the whole file by the sets in memory
CheckpointOverwrites ==
    SaveStep => stateFile' = MemoryState(done_months', done_images', failed_images')
\* a reconciliation ran during the scraper run that is at a checkpoint
Overlapped == rec.ran /\ pc # "idle" /\ lastOp \in {"scrape_save", "scrape_index_empty"}

(* C34: the scraper reads the state file once, at its start, and every
   checkpoint overwrites the whole file from the sets in memory; when a
   reconciliation writes the state file between the start of the scraper and
   one of its later checkpoints, that checkpoint undoes the reconciler's
   corrections (keys cleared from failed_images, months removed from
   done_months). *)
C34_OverlappingRunsLoseUpdates ==
    [][ReadOnceAtStart /\ CheckpointOverwrites]_vars

C34_Witness ==
    /\ Overlapped /\ ~args.reset
    /\ Key(202412, "A") \in rec.missing
    /\ Key(202412, "A") \in rec.pre.failed_images
    /\ 202412 \in rec.pre.done_months
    /\ Key(202412, "A") \notin hist.failed
    /\ FileMissing(FileName(202412, "A"))
    /\ Key(202412, "A") \in stateFile.failed_images
    /\ 202412 \in stateFile.done_months

\* the build is at the head of its loop with a month to handle
AtMonth == cb.pc = "month" /\ cb.months # <<>>
\* a month before the current one that has a row, in a run without --force
Frozen(ym) ==
    /\ ~cb.args.force
    /\ ym < this_month
    /\ MonthRows(cb.all_rows, ym) # <<>>
\* no index request for a frozen month; the mapping is left alone
FrozenSkipped ==
    (AtMonth /\ Frozen(Head(cb.months))) =>
        /\ cb'.pc = "month" /\ cb'.months = Tail(cb.months)
        /\ cb'.all_rows = cb.all_rows
        /\ cb'.tries = cb.tries
\* the rows of a frozen month are written back as the file had them
FrozenWritten ==
    (cb.pc = "month" /\ cb'.pc = "done" /\ ~cb.args.force) =>
        \A ym \in {catalog.rows[i].yyyymm : i \in 1..Len(catalog.rows)} :
            ym < this_month =>
                /\ ToSet(MonthRows(catalog'.rows, ym)) = ToSet(MonthRows(catalog.rows, ym))
                /\ Len(MonthRows(catalog'.rows, ym)) = Len(MonthRows(catalog.rows, ym))
\* the current month is fetched by every run that has it in its range
CurrentFetched ==
    (AtMonth /\ Head(cb.months) = this_month) =>
        (cb'.pc = "fetch" /\ cb'.yyyymm = this_month /\ cb'.tries = <<>>)

(* C35: a catalog build without --force issues no index request for a month
   strictly earlier than the current month that has at least one catalog row
   and leaves its rows unchanged, so the k rows recorded while the month was
   the current one stay exactly those k rows; the current month is fetched
   again on every run. *)
C35_PartialMonthFrozen ==
    [][FrozenSkipped /\ FrozenWritten /\ CurrentFetched]_vars

C35_Witness ==
    /\ cb.pc = "done" /\ ~cb.args.force
    /\ cb.args.start = 202412 /\ cb.args.end = 202501
    /\ Len(MonthRows(catalog.rows, 202412)) = 2
    /\ cb.yyyymm = this_month /\ cb.tries = <<"ok">>
    /\ Len(cb.new_rows) = 3
    /\ MonthRows(catalog.rows, this_month) = Reverse(cb.new_rows)

\* the months that have a row in the file
CatalogMonths == {catalog.rows[i].yyyymm : i \in 1..Len(catalog.rows)}

(* C36: starting without a catalog, after any sequence of catalog builds
   (forced or not), the rows of each month carry exactly the days 1..k of the
   month for some k, each once, and no two rows of the catalog share a
   date. *)
C36_CatalogDateUniqueness ==
    /\ \A ym \in CatalogMonths :
          LET rows == MonthRows(catalog.rows, ym)
          IN  /\ {DayOf(rows[i]) : i \in 1..Len(rows)} = 1..Len(rows)
              /\ Len(rows) <= DaysOf(ym)
              /\ \A i \in 1..Len(rows) : rows[i].date = ym * 100 + DayOf(rows[i])
    /\ \A i, j \in 1..Len(catalog.rows) :
          catalog.rows[i].date = catalog.rows[j].date => i = j

C36_Witness ==
    /\ cb.pc = "done" /\ cb.args.force
    /\ Len(MonthRows(catalog.rows, 202412)) = 1
    /\ Len(MonthRows(catalog.rows, 202501)) = 2
    /\ Len(MonthRows(catalog.rows, 202502)) = 28
    /\ cb.yyyymm = 202501 /\ Len(cb.new_rows) = 2

\* get_image_ids has returned no ids for the current month
EmptyFetch == cb.pc = "merge" /\ cb.image_ids = <<>>
\* the mapping is left as it is and the loop goes on
EmptyFetchKeepsMapping ==
    EmptyFetch => (cb'.pc = "month" /\ cb'.all_rows = cb.all_rows)
\* the rows of the month last fetched, when that fetch was empty, are written
\* back as the file had them
EmptyFetchKeepsFile ==
    (cb.pc = "month" /\ cb'.pc = "done" /\ cb.tries # <<>> /\ cb.image_ids = <<>>) =>
        /\ ToSet(MonthRows(catalog'.rows, cb.yyyymm)) = ToSet(MonthRows(catalog.rows, cb.yyyymm))
        /\ Len(MonthRows(catalog'.rows, cb.yyyymm)) = Len(MonthRows(catalog.rows, cb.yyyymm))

(* C37: when the index fetch of a month returns no ids during a catalog build
   (404, retries exhausted, or a page without item links), the rows the
   catalog holds for that month are left unchanged by the run; they are not
   purged. *)
C37_EmptyFetchKeepsRows ==
    [][EmptyFetchKeepsMapping /\ EmptyFetchKeepsFile]_vars

C37_Witness ==
    /\ cb.pc = "done"
    /\ cb.yyyymm = this_month /\ cb.image_ids = <<>>
    /\ cb.tries = <<"error", "error", "error">>
    /\ Len(MonthRows(catalog.rows, this_month)) = 2
    /\ MonthRows(cb.all_rows, this_month) = MonthRows(catalog.rows, this_month)

\* the file is written by the last statement of main only
WrittenAtEndOnly == cb'.pc # "done" => catalog' = catalog
\* a run that a date error has ended does nothing more
RaisedIsFinal == cb.pc = "raised" => (cb'.pc \in {"raised", "idle"} /\ catalog' = catalog)

(* C38: if assign_dates raises for a month of a catalog build (listing longer
   than the month), the catalog file is not written in that run: the file is
   as it was before the run, and the rows merged in memory for months handled
   earlier in the run are not persisted. *)
C38_BuildAbortedByDateError ==
    [][WrittenAtEndOnly /\ RaisedIsFinal]_vars

C38_Witness ==
    /\ cb.pc = "raised"
    /\ cb.yyyymm = 202502 /\ Len(cb.image_ids) = 29
    /\ catalog = FullCatalog
    /\ Len(MonthRows(cb.all_rows, 202501)) = 3
    /\ Len(MonthRows(catalog.rows, 202501)) = 1

----------------------------------------------------------------------------
(* Reconciler frame and the size tests *)

\* the key is the key of a catalog entry of the window of the last run
WindowEntry(key) == \E row \in RecEntries : RowKey(row) = key
\* every key the state file held or holds
StateKeys ==
    Keys \cup rec.pre.done_images \cup rec.pre.failed_images
         \cup stateFile.done_images \cup stateFile.failed_images
StateMonths == AllMonths \cup rec.pre.done_months \cup stateFile.done_months

(* C39: a reconciliation run leaves unchanged the membership in done_images
   and failed_images of every key that is not a catalog entry of the window,
   and the membership in done_months of every month without a catalog entry
   in the window, except that the current calendar month is removed from
   done_months. *)
C39_ReconcilerFrame ==
    AfterRec =>
        /\ \A key \in StateKeys :
              ~WindowEntry(key) =>
                  /\ key \in stateFile.done_images <=> key \in rec.pre.done_images
                  /\ key \in stateFile.failed_images <=> key \in rec.pre.failed_images
        /\ \A m \in StateMonths :
              (~MonthHasEntry(m) /\ m # this_month) =>
                  (m \in stateFile.done_months <=> m \in rec.pre.done_months)
        /\ this_month \notin stateFile.done_months

C39_Witness ==
    /\ AfterRec /\ rec.start = 202412 /\ rec.end = 202412
    /\ this_month = 202412 /\ 202412 \in rec.pre.done_months
    /\ ~MonthHasEntry(202412)
    /\ Catalogued(Key(202501, "A")) /\ FileMissing(FileName(202501, "A"))
    /\ Key(202501, "A") \in stateFile.done_images
    /\ Key(202501, "A") \in stateFile.failed_images
    /\ 202501 \in stateFile.done_months

(* C40: the three size tests agree: every payload a download accepts
   (try_direct_cdn, download_url) produces a file that the scraper's on-disk
   test and the reconciler's presence test both count as present, a file of
   exactly 50,000 bytes included. *)
C40_SizeThresholdAgreement ==
    \A f \in hist.downloaded :
        root[f].exists => (OnDisk(root[f]) /\ image_is_present(f))

====
